---- MODULE Spec2Model ----
(***************************************************************************)
(* Model of the opportunity-detection and simulated-execution engine of    *)
(* crypto5m_bot.py and polymarketGPT.py.                                    *)
(*                                                                         *)
(* Python floats are modelled as exact rationals [n |-> .., d |-> ..] in    *)
(* lowest terms with d > 0; Python's None is the record None.              *)
(***************************************************************************)
EXTENDS Integers, Sequences, FiniteSets, TLC

VARIABLES
    op,     \* the operation that has been applied ("init" before any)
    args,   \* the inputs the operation is applied to
    ret,    \* what the operation returned
    st      \* st.session_state, for the operations that run in a session

vars == <<op, args, ret, st>>

-----------------------------------------------------------------------------
(* Exact rational arithmetic standing for float arithmetic.                *)

None == [none |-> TRUE]

Abs(x) == IF x < 0 THEN -x ELSE x

RECURSIVE GCD(_, _)
GCD(a, b) == IF b = 0 THEN a ELSE GCD(b, a % b)

Rat(n, d) ==
    LET g == GCD(Abs(n), Abs(d))
        s == IF d < 0 THEN -1 ELSE 1
    IN  [n |-> (s * n) \div g, d |-> (s * d) \div g]

I(k) == [n |-> k, d |-> 1]
Zero == I(0)
One == I(1)

\* a + b and a - b over the least common denominator
RAdd(a, b) ==
    LET g == GCD(a.d, b.d)
    IN  Rat(a.n * (b.d \div g) + b.n * (a.d \div g), (a.d \div g) * b.d)
RSub(a, b) == RAdd(a, [n |-> 0 - b.n, d |-> b.d])
RMul(a, b) ==
    LET g1 == GCD(Abs(a.n), b.d)
        g2 == GCD(Abs(b.n), a.d)
    IN  Rat((a.n \div g1) * (b.n \div g2), (a.d \div g2) * (b.d \div g1))
\* a / b, for b # 0
RDiv(a, b) ==
    RMul(a, IF b.n < 0 THEN [n |-> 0 - b.d, d |-> 0 - b.n] ELSE [n |-> b.d, d |-> b.n])
RLt(a, b) ==
    LET g == GCD(a.d, b.d) IN a.n * (b.d \div g) < b.n * (a.d \div g)
RLe(a, b) ==
    LET g == GCD(a.d, b.d) IN a.n * (b.d \div g) <= b.n * (a.d \div g)
RMin(a, b) == IF RLe(a, b) THEN a ELSE b

-----------------------------------------------------------------------------
(* Cost model                                                              *)

\* crypto5m_bot.py total_fees
total_fees(trade_size_usd, p) ==
    LET clob == RMul(p.clob_fee_pct, I(2))
        gas  == IF RLt(Zero, trade_size_usd)
                THEN RDiv(p.gas_merge_usd, trade_size_usd) ELSE Zero
        swap == RMul(p.swap_spread_pct, I(2))
        buf  == Rat(p.buffer_bps, 10000)
    IN  RAdd(RAdd(RAdd(clob, gas), swap), buf)

\* crypto5m_bot.py compute_arb_edge: <<raw_edge, net_edge>>
compute_arb_edge(yes_cost, no_cost, trade_size, p) ==
    LET raw  == RSub(One, RAdd(yes_cost, no_cost))
        fees == total_fees(trade_size, p)
        net  == RSub(raw, fees)
    IN  <<raw, net>>

\* polymarketGPT.py compute_edge: <<raw_edge, net_edge>>
compute_edge(buy_yes, buy_no, clob_fee, gas_usd, swap_spread, buffer_bps, trade_size_usd) ==
    LET long_cost == RAdd(buy_yes, buy_no)
        raw_edge  == RSub(One, long_cost)
        fees_clob == RMul(clob_fee, I(2))
        gas_frac  == IF RLt(Zero, trade_size_usd)
                     THEN RDiv(gas_usd, trade_size_usd) ELSE Zero
        buffer    == Rat(buffer_bps, 10000)
        net_edge  == RSub(RSub(RSub(RSub(raw_edge, fees_clob), gas_frac),
                               swap_spread), buffer)
    IN  <<raw_edge, net_edge>>

-----------------------------------------------------------------------------
(* Inputs of the cost model.  The crypto5m_bot.py sidebar offers the CLOB  *)
(* fee and the gas cost as number inputs without a minimum, so negative    *)
(* values are among the parameter sets it allows; swap spread and buffer   *)
(* have no widget and keep their defaults.                                 *)

MaxFeeSteps == 2

\* clob_fee_pct: the default 0.00075 moved up or down by steps of 0.001
ClobFees == { Rat(75 + 100 * k, 100000) : k \in (0 - MaxFeeSteps)..MaxFeeSteps }
\* gas_merge_usd: the default 0.50 moved up or down by steps of 0.5
GasCosts == { Rat(1 + k, 2) : k \in (0 - MaxFeeSteps)..MaxFeeSteps }
TradeSizes == { I(0), I(-50), I(55), I(1025), I(2750) }
AskPrices == { Rat(k, 100) : k \in {1, 48, 49, 52, 97} }

\* crypto5m_bot.py DEFAULT_PARAMS
DEFAULT_PARAMS ==
    [clob_fee_pct |-> Rat(75, 100000), gas_merge_usd |-> Rat(1, 2),
     swap_spread_pct |-> Rat(2, 10000), buffer_bps |-> 10,
     arb_threshold_bps |-> 20, snipe_threshold |-> Rat(5, 100),
     mispriced_ratio |-> Rat(1, 2), mispriced_min_size |-> I(10),
     min_trade_usd |-> I(50), max_trade_usd |-> I(2000),
     slippage_pct |-> Rat(3, 10), refresh_interval |-> 3,
     last_15s_window |-> 15]

\* polymarketGPT.py DEFAULT_PARAMS (fees and spread in percent)
POLY_DEFAULT_PARAMS ==
    [profit_threshold_bps |-> 30, clob_fee_pct |-> Rat(75, 1000),
     gas_merge_usd |-> Rat(1, 2), swap_spread_pct |-> Rat(2, 100),
     buffer_bps |-> 10, min_trade_usd |-> I(50), max_trade_usd |-> I(5000),
     slippage_pct |-> Rat(1, 2)]

CostParams ==
    { [DEFAULT_PARAMS EXCEPT !.clob_fee_pct = c, !.gas_merge_usd = g] :
        c \in ClobFees, g \in GasCosts }

InitFees ==
    /\ op = "init"
    /\ st = None
    /\ ret = None
    /\ args \in [yes : AskPrices, no : AskPrices, size : TradeSizes, p : CostParams]

CallTotalFees ==
    /\ op = "init"
    /\ op' = "total_fees"
    /\ ret' = total_fees(args.size, args.p)
    /\ UNCHANGED <<args, st>>

CallComputeArbEdge ==
    /\ op = "init"
    /\ op' = "compute_arb_edge"
    /\ ret' = compute_arb_edge(args.yes, args.no, args.size, args.p)
    /\ UNCHANGED <<args, st>>

CallComputeEdge ==
    /\ op = "init"
    /\ op' = "compute_edge"
    /\ ret' = compute_edge(args.yes, args.no, args.p.clob_fee_pct,
                           args.p.gas_merge_usd, args.p.swap_spread_pct,
                           args.p.buffer_bps, args.size)
    /\ UNCHANGED <<args, st>>

NextFees == CallTotalFees \/ CallComputeArbEdge \/ CallComputeEdge

SpecFees == InitFees /\ [][NextFees]_vars

\* The two-leg fee fraction as the cost model defines it
TwoLegFeeFraction(trade_size_usd, p) ==
    RAdd(RAdd(RAdd(RMul(I(2), p.clob_fee_pct),
                   IF trade_size_usd.n > 0
                   THEN RDiv(p.gas_merge_usd, trade_size_usd) ELSE Zero),
              RMul(I(2), p.swap_spread_pct)),
         Rat(p.buffer_bps, 10000))

\* C2: total_fees returns 2*clob_fee + gas_cost/trade_size + 2*swap_spread +
\* buffer_bps/10000 (gas term 0 when trade_size <= 0), and compute_edge subtracts
\* that same two-leg fee fraction from the raw edge.
C2_BothFeeComputationsDoubleSwap ==
    /\ op = "total_fees" => ret = TwoLegFeeFraction(args.size, args.p)
    /\ op = "compute_edge" =>
           RSub(ret[1], ret[2]) = TwoLegFeeFraction(args.size, args.p)

\* C3: compute_arb_edge returns raw_edge = 1 - yes_ask - no_ask and
\* net_edge <= raw_edge, for every parameter set the sidebar allows (the
\* representative trade size (min + max)/2 of the sliders is at least 55).
C3_NetEdgeAtMostRawEdge ==
    (op = "compute_arb_edge" /\ RLe(I(55), args.size)) =>
        /\ ret[1] = RSub(RSub(One, args.yes), args.no)
        /\ RLe(ret[2], ret[1])

-----------------------------------------------------------------------------
(* Order books.  A book is None (fetch failed) or [asks, bids], each a      *)
(* sequence of entries [price, size] as the provider sent them; a field    *)
(* that float() cannot parse is Unparseable.                               *)

Unparseable == [unparseable |-> TRUE]

Parses(e) == e.price # Unparseable /\ e.size # Unparseable

Range(seq) == { seq[i] : i \in DOMAIN seq }

RECURSIVE RMinOf(_)
RMinOf(S) ==
    LET x == CHOOSE y \in S : TRUE
    IN  IF S = {x} THEN x ELSE RMin(x, RMinOf(S \ {x}))

RECURSIVE RMaxOf(_)
RMaxOf(S) ==
    LET x == CHOOSE y \in S : TRUE
        m == RMaxOf(S \ {x})
    IN  IF S = {x} THEN x ELSE IF RLe(m, x) THEN x ELSE m

\* crypto5m_bot.py best_ask_price: min over all asks, None on any float() error
best_ask_price(ob) ==
    IF ob = None THEN None
    ELSE IF ob.asks = <<>> THEN None
    ELSE IF \E a \in Range(ob.asks) : a.price = Unparseable THEN None
    ELSE RMinOf({ a.price : a \in Range(ob.asks) })

\* crypto5m_bot.py best_bid_price
best_bid_price(ob) ==
    IF ob = None THEN None
    ELSE IF ob.bids = <<>> THEN None
    ELSE IF \E b \in Range(ob.bids) : b.price = Unparseable THEN None
    ELSE RMaxOf({ b.price : b \in Range(ob.bids) })

\* crypto5m_bot.py effective_buy_price
effective_buy_price(ob) == best_ask_price(ob)

\* polymarketGPT.py best_ask: entries that fail to parse, or with p <= 0 or
\* s <= 0, are skipped
best_ask(ob) ==
    IF ob = None THEN None
    ELSE LET prices == { o.price : o \in { e \in Range(ob.asks) :
                            Parses(e) /\ RLt(Zero, e.price) /\ RLt(Zero, e.size) } }
         IN  IF prices = {} THEN None ELSE RMinOf(prices)

\* polymarketGPT.py best_bid
best_bid(ob) ==
    IF ob = None THEN None
    ELSE LET prices == { o.price : o \in { e \in Range(ob.bids) :
                            Parses(e) /\ RLt(Zero, e.price) /\ RLt(Zero, e.size) } }
         IN  IF prices = {} THEN None ELSE RMaxOf(prices)

\* polymarketGPT.py get_effective_prices (the two buy prices)
get_effective_prices(yes_ask, yes_bid, no_ask, no_bid) ==
    LET spread_yes == IF RLt(Zero, yes_bid) THEN RSub(yes_ask, yes_bid) ELSE Zero
        spread_no  == IF RLt(Zero, no_bid) THEN RSub(no_ask, no_bid) ELSE Zero
        eff_buy_yes == RAdd(yes_ask, RMul(spread_yes, Rat(1, 10)))
        eff_buy_no  == RAdd(no_ask, RMul(spread_no, Rat(1, 10)))
    IN  [effective_buy_yes |-> RMin(eff_buy_yes, Rat(99, 100)),
         effective_buy_no  |-> RMin(eff_buy_no, Rat(99, 100))]

-----------------------------------------------------------------------------
(* Strategy 1: long arbitrage                                              *)

\* crypto5m_bot.py check_arb_strategy: the opportunity, or None
check_arb_strategy(crypto, yes_ob, no_ob, p) ==
    LET yes_ask == effective_buy_price(yes_ob)
        no_ask  == effective_buy_price(no_ob)
    IN  IF yes_ask = None \/ no_ask = None THEN None
        ELSE IF RLe(yes_ask, Zero) \/ RLe(no_ask, Zero) THEN None
        ELSE LET trade_size == RDiv(RAdd(p.min_trade_usd, p.max_trade_usd), I(2))
                 edge       == compute_arb_edge(yes_ask, no_ask, trade_size, p)
                 threshold  == Rat(p.arb_threshold_bps, 10000)
             IN  IF RLt(edge[2], threshold) THEN None
                 ELSE [strategy |-> "arb", crypto |-> crypto,
                       yes_price |-> yes_ask, no_price |-> no_ask,
                       total |-> RAdd(yes_ask, no_ask),
                       raw_edge |-> edge[1], net_edge |-> edge[2]]

\* polymarketGPT.py scan_markets_once, the detection of one market: None when
\* a best ask is missing ("NO DATA"), else the edges and whether the market is
\* counted as an opportunity (total_opps += 1, status HOT)
scan_market_detect(ob_yes, ob_no, params) ==
    LET threshold == Rat(params.profit_threshold_bps, 10000)
        a_yes == best_ask(ob_yes)
        a_no  == best_ask(ob_no)
        b_yes == best_bid(ob_yes)
        b_no  == best_bid(ob_no)
    IN  IF a_yes = None \/ a_no = None THEN None
        ELSE LET eff == get_effective_prices(a_yes, IF b_yes = None THEN Zero ELSE b_yes,
                                             a_no, IF b_no = None THEN Zero ELSE b_no)
                 buy_yes == eff.effective_buy_yes
                 buy_no  == eff.effective_buy_no
                 edge == compute_edge(buy_yes, buy_no,
                                      RDiv(params.clob_fee_pct, I(100)),
                                      params.gas_merge_usd,
                                      RDiv(params.swap_spread_pct, I(100)),
                                      params.buffer_bps,
                                      params.min_trade_usd)
             IN  [yes_ask |-> a_yes, no_ask |-> a_no,
                  buy_yes |-> buy_yes, buy_no |-> buy_no,
                  raw_edge |-> edge[1], net_edge |-> edge[2],
                  opportunity |-> RLt(threshold, edge[2])]

-----------------------------------------------------------------------------
(* Inputs of the arbitrage detectors: books of at most MaxAsks asks whose   *)
(* prices straddle the threshold boundary, and parameter sets the sliders  *)
(* allow for which YES 0.48 + NO 0.5146 gives net_edge = threshold.         *)

MaxAsks == 2

SeqsUpTo(S, n) == UNION { [1..k -> S] : k \in 0..n }

ArbPrices == { Zero, Rat(48, 100), Rat(5146, 10000), Rat(5147, 10000), Unparseable }
\* The resting orders of a book: every price at size 100, and one emptied level
ArbEntries ==
    [price : ArbPrices, size : {I(100)}] \cup {[price |-> Rat(48, 100), size |-> Zero]}
ArbBids == { <<>>, <<[price |-> Rat(47, 100), size |-> I(100)]>> }

ArbBooks ==
    {None} \cup
    { [asks |-> a, bids |-> b] :
        a \in SeqsUpTo(ArbEntries, MaxAsks),
        b \in ArbBids }

ArbThresholds == { <<20, 22>>, <<5, 30>> }

InitArb ==
    /\ op = "init"
    /\ st = None
    /\ ret = None
    /\ \E yes_ob \in ArbBooks, no_ob \in ArbBooks, t \in ArbThresholds :
          args = [yes_ob |-> yes_ob, no_ob |-> no_ob,
                  p |-> [DEFAULT_PARAMS EXCEPT !.min_trade_usd = I(100),
                                               !.max_trade_usd = I(1900),
                                               !.arb_threshold_bps = t[1]],
                  params |-> [POLY_DEFAULT_PARAMS EXCEPT
                                               !.min_trade_usd = I(1000),
                                               !.profit_threshold_bps = t[2]]]

CallCheckArb ==
    /\ op = "init"
    /\ op' = "check_arb_strategy"
    /\ ret' = check_arb_strategy("BTC", args.yes_ob, args.no_ob, args.p)
    /\ UNCHANGED <<args, st>>

CallScanMarket ==
    /\ op = "init"
    /\ op' = "scan_markets_once"
    /\ ret' = scan_market_detect(args.yes_ob, args.no_ob, args.params)
    /\ UNCHANGED <<args, st>>

NextArb == CallCheckArb \/ CallScanMarket

SpecArb == InitArb /\ [][NextArb]_vars

\* The minimum ask price of a book whose asks all carry a numeric price
MinAsk(ob) ==
    IF ob = None THEN None
    ELSE IF ob.asks = <<>> \/ \E a \in Range(ob.asks) : a.price = Unparseable
         THEN None
    ELSE CHOOSE m \in { a.price : a \in Range(ob.asks) } :
            \A a \in Range(ob.asks) : RLe(m, a.price)

\* C1: an arbitrage opportunity is emitted iff both best asks exist, both are
\* > 0 and net_edge >= threshold_bps/10000 (the boundary emits), in
\* check_arb_strategy and in the scan of scan_markets_once alike.
C1_ArbEmittedIffNetEdgeAtLeastThreshold ==
    /\ op = "check_arb_strategy" =>
         LET y == MinAsk(args.yes_ob)
             n == MinAsk(args.no_ob)
             size == RDiv(RAdd(args.p.min_trade_usd, args.p.max_trade_usd), I(2))
         IN  (ret # None) <=>
                /\ y # None /\ n # None
                /\ RLt(Zero, y) /\ RLt(Zero, n)
                /\ RLe(Rat(args.p.arb_threshold_bps, 10000),
                       RSub(RSub(RSub(One, y), n), TwoLegFeeFraction(size, args.p)))
    /\ op = "scan_markets_once" =>
         IF ret = None
         THEN best_ask(args.yes_ob) = None \/ best_ask(args.no_ob) = None
         ELSE /\ RLt(Zero, ret.yes_ask) /\ RLt(Zero, ret.no_ask)
              /\ ret.opportunity <=>
                    RLe(Rat(args.params.profit_threshold_bps, 10000), ret.net_edge)

\* The part of C1 that is about check_arb_strategy alone
C1_CheckArbPart ==
    op = "scan_markets_once" \/ C1_ArbEmittedIffNetEdgeAtLeastThreshold

\* check_arb_strategy emitted at the boundary net_edge = threshold
C1_BoundaryEmitted ==
    /\ op = "check_arb_strategy"
    /\ ret # None
    /\ ret.net_edge = Rat(args.p.arb_threshold_bps, 10000)

-----------------------------------------------------------------------------
(* Strategy 2: last-seconds snipe                                          *)

PERIOD_SECS == 300

\* crypto5m_bot.py time_left_in_period, with time.time() = now
time_left_in_period(start_ts, now) ==
    LET left == RSub(I(start_ts + PERIOD_SECS), now)
    IN  IF RLe(left, Zero) THEN Zero ELSE left

\* check_snipe_strategy's window guard with the comparison inverted
snipe_outside_window_inverted(time_left, p) == RLt(time_left, I(p.last_15s_window))

\* crypto5m_bot.py check_snipe_strategy, the early return: outside the window
snipe_outside_window(time_left, p) == RLt(I(p.last_15s_window), time_left)

\* the candidate with the highest edge, the first among equals
snipe_pick_by_edge(candidates) ==
    candidates[CHOOSE i \in DOMAIN candidates :
        \A j \in DOMAIN candidates :
            \/ RLt(candidates[j].edge, candidates[i].edge)
            \/ (candidates[j].edge = candidates[i].edge /\ i <= j)]

\* crypto5m_bot.py check_snipe_strategy, max(candidates, key=confidence):
\* the first candidate of maximal confidence
snipe_pick(candidates) ==
    candidates[CHOOSE i \in DOMAIN candidates :
        \A j \in DOMAIN candidates :
            \/ RLt(candidates[j].confidence, candidates[i].confidence)
            \/ (candidates[j].confidence = candidates[i].confidence /\ i <= j)]

\* crypto5m_bot.py check_snipe_strategy: the opportunity, or None
check_snipe_strategy(crypto, yes_ob, no_ob, time_left, p) ==
    IF snipe_outside_window(time_left, p) THEN None
    ELSE
    LET yes_ask == effective_buy_price(yes_ob)
        no_ask  == effective_buy_price(no_ob)
        fees == RAdd(RAdd(RAdd(p.clob_fee_pct,
                               RDiv(p.gas_merge_usd, p.max_trade_usd)),
                          p.swap_spread_pct),
                     Rat(p.buffer_bps, 10000))
        edge_yes == RSub(RSub(One, yes_ask), fees)
        edge_no  == RSub(RSub(One, no_ask), fees)
        cand_yes ==
            IF yes_ask # None /\ RLt(Zero, yes_ask) /\ RLe(p.snipe_threshold, edge_yes)
            THEN <<[token |-> "YES", price |-> yes_ask, edge |-> edge_yes,
                    confidence |-> yes_ask]>>
            ELSE <<>>
        cand_no ==
            IF no_ask # None /\ RLt(Zero, no_ask) /\ RLe(p.snipe_threshold, edge_no)
            THEN <<[token |-> "NO", price |-> no_ask, edge |-> edge_no,
                    confidence |-> no_ask]>>
            ELSE <<>>
        candidates == cand_yes \o cand_no
    IN  IF candidates = <<>> THEN None
        ELSE LET best == snipe_pick(candidates)
             IN  [strategy |-> "snipe", crypto |-> crypto, token |-> best.token,
                  price |-> best.price, edge |-> best.edge, time_left |-> time_left]

-----------------------------------------------------------------------------
(* Inputs of the snipe detector: the clock when run_scan reads the time    *)
(* left, the window the slider allows, and books whose asks straddle the   *)
(* edge threshold (with the default costs an ask qualifies iff <= 0.9478). *)

SnipePrices == { Zero, Rat(40, 100), Rat(9478, 10000), Rat(9479, 10000), Unparseable }

SnipeBooks ==
    {None} \cup
    { [asks |-> a, bids |-> <<>>] :
        a \in SeqsUpTo([price : SnipePrices, size : {I(100)}], MaxAsks) }

\* seconds into the period at which run_scan reads the clock, in halves
SnipeClockHalves == { 0, 539, 540, 541, 570, 571, 599, 600, 620 }
SnipeWindows == { 5, 15, 30 }

InitSnipe ==
    /\ op = "init"
    /\ st = None
    /\ ret = None
    /\ \E yes_ob \in SnipeBooks, no_ob \in SnipeBooks, h \in SnipeClockHalves,
          w \in SnipeWindows :
          args = [yes_ob |-> yes_ob, no_ob |-> no_ob,
                  now_start |-> 0, now |-> Rat(h, 2),
                  p |-> [DEFAULT_PARAMS EXCEPT !.last_15s_window = w]]

\* run_scan, the snipe step for one symbol: read the time left, run the detector
CallCheckSnipe ==
    /\ op = "init"
    /\ op' = "check_snipe_strategy"
    /\ LET time_left == time_left_in_period(args.now_start, args.now)
       IN  ret' = [time_left |-> time_left,
                   snipe |-> check_snipe_strategy("BTC", args.yes_ob, args.no_ob,
                                                  time_left, args.p)]
    /\ UNCHANGED <<args, st>>

NextSnipe == CallCheckSnipe

SpecSnipe == InitSnipe /\ [][NextSnipe]_vars

\* The single-leg fee fraction of the snipe detector
SingleLegFeeFraction(p) ==
    RAdd(RAdd(RAdd(p.clob_fee_pct, RDiv(p.gas_merge_usd, p.max_trade_usd)),
              p.swap_spread_pct), Rat(p.buffer_bps, 10000))

\* The asks of the sides that qualify for a snipe: ask > 0 and
\* 1 - ask - single_leg_fee >= snipe_threshold
QualifyingAsks(yes_ob, no_ob, p) ==
    { [token |-> t[1], ask |-> MinAsk(t[2])] :
        t \in { u \in { <<"YES", yes_ob>>, <<"NO", no_ob>> } :
                  /\ MinAsk(u[2]) # None
                  /\ RLt(Zero, MinAsk(u[2]))
                  /\ RLe(p.snipe_threshold,
                         RSub(RSub(One, MinAsk(u[2])), SingleLegFeeFraction(p))) } }

\* C6: whenever the time remaining is greater than the snipe window, the snipe
\* detector emits nothing.
C6_NoSnipeOutsideWindow ==
    (op = "check_snipe_strategy"
        /\ RLt(I(args.p.last_15s_window), ret.time_left)) => ret.snipe = None

\* A scan outside the window in which a side would have qualified
C6_Witness ==
    /\ op = "check_snipe_strategy"
    /\ RLt(I(args.p.last_15s_window), ret.time_left)
    /\ QualifyingAsks(args.yes_ob, args.no_ob, args.p) # {}
    /\ ret.snipe = None

\* C7: inside the window the snipe detector returns the qualifying side with
\* the highest ask price, and none if no side qualifies.
C7_SnipePicksHighestAsk ==
    (op = "check_snipe_strategy"
        /\ RLe(ret.time_left, I(args.p.last_15s_window))) =>
        LET Q == QualifyingAsks(args.yes_ob, args.no_ob, args.p)
        IN  IF Q = {} THEN ret.snipe = None
            ELSE /\ ret.snipe # None
                 /\ [token |-> ret.snipe.token, ask |-> ret.snipe.price] \in Q
                 /\ \A q \in Q : RLe(q.ask, ret.snipe.price)
                 /\ ret.snipe.edge =
                        RSub(RSub(One, ret.snipe.price), SingleLegFeeFraction(args.p))

\* Both sides qualify with different asks, and the higher ask (lower edge) wins
C7_Witness ==
    /\ op = "check_snipe_strategy"
    /\ ret.snipe # None
    /\ Cardinality(QualifyingAsks(args.yes_ob, args.no_ob, args.p)) = 2
    /\ \E q \in QualifyingAsks(args.yes_ob, args.no_ob, args.p) :
          RLt(q.ask, ret.snipe.price)

-----------------------------------------------------------------------------
(* Strategy 3: mispriced orders                                            *)

\* An uncaught ZeroDivisionError, as the result of a list-valued function
ZeroDivisionError == <<[raises |-> "ZeroDivisionError"]>>

\* The keys of the dict price_vol in insertion order: the distinct prices of
\* entries in the order of their first appearance
RECURSIVE price_levels(_)
price_levels(entries) ==
    IF entries = <<>> THEN <<>>
    ELSE LET init == price_levels(SubSeq(entries, 1, Len(entries) - 1))
             last == entries[Len(entries)].price
         IN  IF \E i \in DOMAIN init : init[i] = last THEN init
             ELSE Append(init, last)

\* price_vol[price]: the summed size of the entries at that price
RECURSIVE price_vol(_, _)
price_vol(entries, price) ==
    IF entries = <<>> THEN Zero
    ELSE LET rest == price_vol(Tail(entries), price)
         IN  IF Head(entries).price = price THEN RAdd(Head(entries).size, rest)
             ELSE rest

\* crypto5m_bot.py find_mispriced_orders, max(price_vol, key=price_vol.get):
\* the first key, in insertion order, of maximal summed size
cluster_price_of(entries) ==
    LET keys == price_levels(entries)
        i == CHOOSE k \in DOMAIN keys :
                \A j \in DOMAIN keys :
                    \/ RLt(price_vol(entries, keys[j]), price_vol(entries, keys[k]))
                    \/ (price_vol(entries, keys[j]) = price_vol(entries, keys[k])
                        /\ k <= j)
    IN  keys[i]

\* the flag test with the minimum size exclusive
mispriced_flag_min_exclusive(p_val, s_val, cluster_price, ratio_threshold, min_size) ==
    /\ RLt(min_size, s_val)
    /\ RLe(p_val, RMul(cluster_price, ratio_threshold))
    /\ RLt(p_val, RSub(cluster_price, Rat(10, 100)))

\* the flag test without the absolute 10-cent gap
mispriced_flag_no_gap(p_val, s_val, cluster_price, ratio_threshold, min_size) ==
    /\ ~RLt(s_val, min_size)
    /\ RLe(p_val, RMul(cluster_price, ratio_threshold))

\* crypto5m_bot.py find_mispriced_orders, the test that flags one entry
mispriced_flag(p_val, s_val, cluster_price, ratio_threshold, min_size) ==
    /\ ~RLt(s_val, min_size)
    /\ RLe(p_val, RMul(cluster_price, ratio_threshold))
    /\ RLt(p_val, RSub(cluster_price, Rat(10, 100)))

\* sorted(mispriced, key=price): ascending and stable
RECURSIVE sorted_by_price(_)
sorted_by_price(seq) ==
    IF seq = <<>> THEN <<>>
    ELSE LET i == CHOOSE k \in DOMAIN seq :
                    \A j \in DOMAIN seq :
                        \/ RLt(seq[k].price, seq[j].price)
                        \/ (seq[k].price = seq[j].price /\ k <= j)
             rest == [j \in 1..(Len(seq) - 1) |-> IF j < i THEN seq[j] ELSE seq[j + 1]]
         IN  <<seq[i]>> \o sorted_by_price(rest)

\* crypto5m_bot.py find_mispriced_orders: the flagged entries, each with the
\* cluster price and its discount; ZeroDivisionError when an entry is flagged
\* against a cluster price of 0
find_mispriced_orders(asks, ratio_threshold, min_size) ==
    IF Len(asks) < 2 THEN <<>>
    ELSE IF \E a \in Range(asks) : ~Parses(a) THEN <<>>
    ELSE
    LET entries == asks
        cluster_price == cluster_price_of(entries)
        flagged == SelectSeq(entries,
                      LAMBDA e : mispriced_flag(e.price, e.size, cluster_price,
                                                ratio_threshold, min_size))
        mispriced == [i \in DOMAIN flagged |->
                        [price |-> flagged[i].price,
                         size |-> flagged[i].size,
                         cluster_price |-> cluster_price,
                         discount_pct |->
                             RMul(RDiv(RSub(cluster_price, flagged[i].price),
                                       cluster_price), I(100)),
                         est_profit_per_share |->
                             RSub(cluster_price, flagged[i].price)]]
    IN  IF flagged # <<>> /\ cluster_price = Zero THEN ZeroDivisionError
        ELSE sorted_by_price(mispriced)

\* crypto5m_bot.py check_mispriced_strategy: the opportunities built from the
\* mispriced entries of one book
book_opps(crypto, token_label, mispx) ==
    IF mispx = ZeroDivisionError THEN ZeroDivisionError
    ELSE [i \in DOMAIN mispx |->
            [strategy |-> "mispriced", crypto |-> crypto,
             token |-> token_label,
             price |-> mispx[i].price, size |-> mispx[i].size,
             cluster_price |-> mispx[i].cluster_price,
             discount_pct |-> mispx[i].discount_pct,
             est_profit |-> mispx[i].est_profit_per_share]]

\* crypto5m_bot.py check_mispriced_strategy: one turn of the loop over the
\* YES and the NO book
of_book(crypto, token_label, ob, p) ==
    IF ob = None THEN <<>>
    ELSE book_opps(crypto, token_label,
                   find_mispriced_orders(ob.asks, p.mispriced_ratio,
                                         p.mispriced_min_size))

\* The results of the YES book, then those of the NO book; a raise in either
\* leaves the call
results_of(yes, no) ==
    IF yes = ZeroDivisionError THEN ZeroDivisionError
    ELSE IF no = ZeroDivisionError THEN ZeroDivisionError
    ELSE yes \o no

\* crypto5m_bot.py check_mispriced_strategy
check_mispriced_strategy(crypto, yes_ob, no_ob, p) ==
    results_of(of_book(crypto, "YES", yes_ob, p), of_book(crypto, "NO", no_ob, p))

-----------------------------------------------------------------------------
(* Inputs of the mispriced detector: ask lists of at most MaxMispricedAsks *)
(* entries as the provider may send them (the code validates no range).    *)
(* The prices give clusters at 0.97, 0.2, 0.1 and 0, outliers on and off   *)
(* the ratio and gap boundaries, and sizes on and below min_size = 10.     *)

MaxMispricedAsks == 3

MispricedPrices ==
    { Rat(-2, 10), Zero, Rat(4, 100), Rat(1, 10), Rat(2, 10), Rat(97, 100), Unparseable }
MispricedSizes == { I(5), I(10) }
MispricedRatios == { Rat(2, 10), Rat(5, 10) }

InitMispriced ==
    /\ op = "init"
    /\ st = None
    /\ ret = None
    /\ \E asks \in SeqsUpTo([price : MispricedPrices, size : MispricedSizes],
                            MaxMispricedAsks),
          r \in MispricedRatios :
          args = [asks |-> asks,
                  p |-> [DEFAULT_PARAMS EXCEPT !.mispriced_ratio = r]]

CallFindMispriced ==
    /\ op = "init"
    /\ op' = "find_mispriced_orders"
    /\ ret' = find_mispriced_orders(args.asks, args.p.mispriced_ratio,
                                    args.p.mispriced_min_size)
    /\ UNCHANGED <<args, st>>

\* find_mispriced_orders up to the cluster price, for a list that reaches it
CallClusterPrice ==
    /\ op = "init"
    /\ Len(args.asks) >= 2
    /\ \A a \in Range(args.asks) : Parses(a)
    /\ op' = "cluster_price"
    /\ ret' = [cluster_price |-> cluster_price_of(args.asks)]
    /\ UNCHANGED <<args, st>>

NextMispriced == CallFindMispriced \/ CallClusterPrice

SpecMispriced == InitMispriced /\ [][NextMispriced]_vars

\* The summed size resting at a price
SizeAt(asks, price) == price_vol(asks, price)

\* The price levels carrying the greatest summed size
HeaviestLevels(asks) ==
    { a.price : a \in { b \in Range(asks) :
        \A c \in Range(asks) : RLe(SizeAt(asks, c.price), SizeAt(asks, b.price)) } }

\* C8: the cluster price is the price level with the greatest summed size, and
\* among levels that tie on summed size the lowest price, whatever the order of
\* the entries.
C8_ClusterPriceTiesToLowest ==
    (op = "cluster_price"
        /\ \A a \in Range(args.asks) : RLt(Zero, a.price) /\ RLt(a.price, One)) =>
        /\ ret.cluster_price \in HeaviestLevels(args.asks)
        /\ \A q \in HeaviestLevels(args.asks) : RLe(ret.cluster_price, q)

\* The number of positions of seq that satisfy Test
CountOf(seq, Test(_)) == Cardinality({ i \in DOMAIN seq : Test(seq[i]) })

\* The three conditions under which an entry is to be flagged
ToBeFlagged(e, cluster_price, p) ==
    /\ RLe(p.mispriced_min_size, e.size)
    /\ RLe(e.price, RMul(cluster_price, p.mispriced_ratio))
    /\ RLt(e.price, RSub(cluster_price, Rat(1, 10)))

-----------------------------------------------------------------------------
(* Execution simulation.  The three random.uniform draws of a call are     *)
(* parameters: slip, fill and size.                                        *)

\* the gas charged, undivided for every strategy
gas_charged_undivided(strategy, p) == p.gas_merge_usd

\* crypto5m_bot.py simulate_trade: the gas charged to a filled trade
gas_charged(strategy, p) ==
    IF strategy = "arb" THEN p.gas_merge_usd
    ELSE IF strategy = "snipe" THEN RDiv(p.gas_merge_usd, I(2))
    ELSE RDiv(p.gas_merge_usd, I(4))

\* crypto5m_bot.py simulate_trade
simulate_trade(opp, p, slip, fill, size) ==
    IF opp.strategy = "arb" THEN
        LET cost_per == RAdd(RAdd(opp.yes_price, opp.no_price), slip)
            shares   == RDiv(RMul(size, fill), cost_per)
            gross    == RMul(shares, RSub(One, cost_per))
            net      == RSub(gross, gas_charged("arb", p))
        IN  IF RLe(One, cost_per)
            THEN [status |-> "rejected", reason |-> "slippage killed edge"]
            ELSE [status |-> "filled", strategy |-> "arb", crypto |-> opp.crypto,
                  size_usd |-> RMul(size, fill), shares |-> shares,
                  cost_per |-> cost_per, gross_pnl |-> gross, net_pnl |-> net,
                  edge_pct |-> RMul(opp.net_edge, I(100))]
    ELSE IF opp.strategy = "snipe" THEN
        LET cost   == RAdd(opp.price, slip)
            shares == RDiv(RMul(size, fill), cost)
            gross  == RMul(shares, RSub(One, cost))
            net    == RSub(gross, gas_charged("snipe", p))
        IN  IF RLe(One, cost)
            THEN [status |-> "rejected", reason |-> "cost >= 1.0"]
            ELSE [status |-> "filled", strategy |-> "snipe", crypto |-> opp.crypto,
                  token |-> opp.token,
                  size_usd |-> RMul(size, fill), shares |-> shares,
                  cost |-> cost, gross_pnl |-> gross, net_pnl |-> net]
    ELSE IF opp.strategy = "mispriced" THEN
        LET cost  == RAdd(opp.price, slip)
            avail == RMin(RDiv(RMul(size, fill), cost), opp.size)
            gross == RMul(avail, RSub(opp.cluster_price, cost))
            net   == RSub(gross, gas_charged("mispriced", p))
        IN  IF cost = Zero THEN [raises |-> "ZeroDivisionError"]
            ELSE [status |-> "filled", strategy |-> "mispriced", crypto |-> opp.crypto,
                  token |-> opp.token,
                  size_usd |-> RMul(avail, cost), shares |-> avail,
                  buy_price |-> cost, sell_price |-> opp.cluster_price,
                  gross_pnl |-> gross, net_pnl |-> net]
    ELSE [status |-> "unknown"]

\* polymarketGPT.py simulate_execution: None when slippage kills the edge
simulate_execution(buy_yes, buy_no, net_edge, params, slip, partial_fill_pct, trade_size) ==
    LET cost_per_share == RAdd(RAdd(buy_yes, buy_no), slip)
        shares    == RDiv(RMul(trade_size, partial_fill_pct), cost_per_share)
        gross_pnl == RMul(shares, RSub(One, cost_per_share))
        gas       == params.gas_merge_usd
        net_pnl   == RSub(gross_pnl, gas)
    IN  IF RLe(One, cost_per_share) THEN None
        ELSE [trade_size_usd |-> RMul(trade_size, partial_fill_pct),
              shares |-> shares, fill_pct |-> RMul(partial_fill_pct, I(100)),
              cost_per_set |-> cost_per_share,
              gross_pnl |-> gross_pnl, net_pnl |-> net_pnl,
              net_edge_pct |-> RMul(net_edge, I(100))]

\* The values a random.uniform(a, b) draw is taken from: both ends and the
\* middle (uniform accepts its ends in either order)
Uniform(a, b) == { a, b, RDiv(RAdd(a, b), I(2)) }

-----------------------------------------------------------------------------
(* Inputs of the simulators: the opportunities the detectors emit for one  *)
(* symbol (run_scan) or one market (scan_markets_once) over books of at    *)
(* most MaxSimAsks asks, then one simulation of one of them.  With the     *)
(* slippage slider at 2% the draws 0, 0.01 and 0.02 put the cost of        *)
(* YES 0.48 + NO 0.51 and of an ask at 0.98 below, at and above 1.0.       *)

MaxSimAsks == 2

SimPrices == { Zero, Rat(48, 100), Rat(51, 100), Rat(98, 100), Rat(15, 10) }

SimBooks ==
    {None} \cup
    { [asks |-> a, bids |-> <<>>] :
        a \in SeqsUpTo([price : SimPrices, size : {I(100)}], MaxSimAsks) }

SimParams ==
    [DEFAULT_PARAMS EXCEPT !.snipe_threshold = Rat(1, 100),
                           !.mispriced_ratio = Rat(70, 100),
                           !.min_trade_usd = I(100),
                           !.max_trade_usd = I(1900),
                           !.slippage_pct = I(2)]

SimPolyParams ==
    [POLY_DEFAULT_PARAMS EXCEPT !.min_trade_usd = I(1000), !.slippage_pct = I(2)]

SimTimeLeft == { I(10) }

InitSim ==
    /\ op = "init"
    /\ st = None
    /\ ret = None
    /\ \E yes_ob \in SimBooks, no_ob \in SimBooks, t \in SimTimeLeft :
          args = [yes_ob |-> yes_ob, no_ob |-> no_ob, time_left |-> t,
                  p |-> SimParams, params |-> SimPolyParams]

\* run_scan: all_opps after the three strategies of one symbol
all_opps_of(arb, snipe, mispx) ==
    IF mispx = ZeroDivisionError THEN ZeroDivisionError
    ELSE (IF arb = None THEN <<>> ELSE <<arb>>)
         \o (IF snipe = None THEN <<>> ELSE <<snipe>>)
         \o mispx

\* run_scan, the strategies of one symbol
symbol_opps(sym, yes_ob, no_ob, time_left, p) ==
    IF yes_ob = None /\ no_ob = None THEN <<>>
    ELSE all_opps_of(check_arb_strategy(sym, yes_ob, no_ob, p),
                     check_snipe_strategy(sym, yes_ob, no_ob, time_left, p),
                     check_mispriced_strategy(sym, yes_ob, no_ob, p))

CallDetect ==
    /\ op = "init"
    /\ op' = "detect"
    /\ ret' = [all_opps |-> symbol_opps("BTC", args.yes_ob, args.no_ob,
                                        args.time_left, args.p)]
    /\ UNCHANGED <<args, st>>

\* run_scan, the simulation of one recorded opportunity
CallSimulateTrade ==
    /\ op = "detect"
    /\ ret.all_opps # ZeroDivisionError
    /\ \E i \in DOMAIN ret.all_opps,
          slip \in Uniform(Zero, RDiv(args.p.slippage_pct, I(100))),
          fill \in Uniform(Rat(75, 100), One),
          size \in Uniform(args.p.min_trade_usd,
                           RMin(args.p.max_trade_usd, I(1500))) :
          /\ op' = "simulate_trade"
          /\ ret' = [opp |-> ret.all_opps[i], slip |-> slip, fill |-> fill,
                     size |-> size,
                     result |-> simulate_trade(ret.all_opps[i], args.p, slip, fill, size)]
    /\ UNCHANGED <<args, st>>

CallScanDetect ==
    /\ op = "init"
    /\ op' = "scan_detect"
    /\ ret' = scan_market_detect(args.yes_ob, args.no_ob, args.params)
    /\ UNCHANGED <<args, st>>

\* scan_markets_once, the simulation of a market whose net edge clears the
\* threshold
CallSimulateExecution ==
    /\ op = "scan_detect"
    /\ ret # None
    /\ ret.opportunity
    /\ \E slip \in Uniform(Zero, RDiv(args.params.slippage_pct, I(100))),
          fill \in Uniform(Rat(75, 100), One),
          size \in Uniform(args.params.min_trade_usd,
                           RMin(args.params.max_trade_usd, I(2000))) :
          /\ op' = "simulate_execution"
          /\ ret' = [buy_yes |-> ret.buy_yes, buy_no |-> ret.buy_no, slip |-> slip,
                     fill |-> fill, size |-> size,
                     result |-> simulate_execution(ret.buy_yes, ret.buy_no, ret.net_edge,
                                                   args.params, slip, fill, size)]
    /\ UNCHANGED <<args, st>>

NextSim == CallDetect \/ CallSimulateTrade \/ CallScanDetect \/ CallSimulateExecution

SpecSim == InitSim /\ [][NextSim]_vars

\* The cost side of a simulation: the price, or the price sum, plus slippage
DrawnCost(opp, slip) ==
    IF opp.strategy = "arb" THEN RAdd(RAdd(opp.yes_price, opp.no_price), slip)
    ELSE RAdd(opp.price, slip)

\* C4: a simulation that returns is "rejected" exactly when the drawn cost
\* is >= 1.0 and "filled" otherwise, for arbitrage, snipe and mispriced alike.
C4_RejectedIffCostAtLeastOne ==
    (op = "simulate_trade" /\ ret.result # [raises |-> "ZeroDivisionError"]) =>
        ret.result.status =
            IF RLe(One, DrawnCost(ret.opp, ret.slip)) THEN "rejected" ELSE "filled"

\* The part of C4 that is about arbitrage and snipe
C4_ArbAndSnipePart ==
    (op = "simulate_trade" /\ ret.opp.strategy # "mispriced") =>
        C4_RejectedIffCostAtLeastOne

\* The divisor of the gas cost for a strategy
GasDivisor(strategy) ==
    IF strategy = "arb" THEN 1 ELSE IF strategy = "snipe" THEN 2 ELSE 4

\* C5: for every filled trade net_pnl = gross_pnl - gas_cost/d with d = 1 for
\* arbitrage, 2 for snipe and 4 for mispriced, where gross = shares*(1 - cost)
\* for arbitrage and snipe and gross = shares*(cluster_price - cost) for
\* mispriced.
C5_NetIsGrossMinusGasShare ==
    /\ (op = "simulate_trade" /\ ret.result # [raises |-> "ZeroDivisionError"]
            /\ ret.result.status = "filled") =>
          LET r == ret.result
              sell == IF ret.opp.strategy = "mispriced" THEN ret.opp.cluster_price
                      ELSE One
              cost == DrawnCost(ret.opp, ret.slip)
          IN  /\ r.gross_pnl = RMul(r.shares, RSub(sell, cost))
              /\ r.net_pnl = RSub(r.gross_pnl,
                                  Rat(args.p.gas_merge_usd.n,
                                      args.p.gas_merge_usd.d * GasDivisor(ret.opp.strategy)))
    /\ (op = "simulate_execution" /\ ret.result # None) =>
          LET r == ret.result
          IN  /\ r.cost_per_set = RAdd(RAdd(ret.buy_yes, ret.buy_no), ret.slip)
              /\ r.gross_pnl = RMul(r.shares, RSub(One, r.cost_per_set))
              /\ r.net_pnl = RSub(r.gross_pnl, args.params.gas_merge_usd)

\* A filled snipe, whose gas share is a half
C5_Witness ==
    /\ op = "simulate_trade"
    /\ ret.opp.strategy = "snipe"
    /\ ret.result.status = "filled"
    /\ ret.result.net_pnl = RSub(ret.result.gross_pnl, Rat(1, 4))

-----------------------------------------------------------------------------
(* Order book accessors of both scripts on the same books: entries with    *)
(* sizes 0 and 100, prices inside (0, 1), a price of 0 and fields that do  *)
(* not parse, in asks and bids of at most MaxAsks entries.                 *)

BookPrices == { Zero, Rat(48, 100), Rat(51, 100), Unparseable }
BookSizes == { Zero, I(100) }
BookEntries == [price : BookPrices, size : BookSizes]

InitBook ==
    /\ op = "init"
    /\ st = None
    /\ ret = None
    /\ \E a \in SeqsUpTo(BookEntries, MaxAsks), b \in SeqsUpTo(BookEntries, MaxAsks) :
          args = [ob |-> [asks |-> a, bids |-> b]]

CallBestAskPrice ==
    /\ op = "init"
    /\ op' = "best_ask_price"
    /\ ret' = [price |-> best_ask_price(args.ob)]
    /\ UNCHANGED <<args, st>>

CallBestBidPrice ==
    /\ op = "init"
    /\ op' = "best_bid_price"
    /\ ret' = [price |-> best_bid_price(args.ob)]
    /\ UNCHANGED <<args, st>>

CallBestAsk ==
    /\ op = "init"
    /\ op' = "best_ask"
    /\ ret' = [price |-> best_ask(args.ob)]
    /\ UNCHANGED <<args, st>>

CallBestBid ==
    /\ op = "init"
    /\ op' = "best_bid"
    /\ ret' = [price |-> best_bid(args.ob)]
    /\ UNCHANGED <<args, st>>

NextBook == CallBestAskPrice \/ CallBestBidPrice \/ CallBestAsk \/ CallBestBid

SpecBook == InitBook /\ [][NextBook]_vars

\* A side of a book as the data model has it: every field parses, prices lie
\* in (0, 1) and sizes are >= 0
WellFormedSide(entries) ==
    \A e \in Range(entries) :
        /\ Parses(e)
        /\ RLt(Zero, e.price) /\ RLt(e.price, One)
        /\ RLe(Zero, e.size)

\* The least (or, with least = FALSE, the greatest) price over all entries of
\* a well-formed side, None when the side is empty
ExtremePrice(entries, least) ==
    IF entries = <<>> THEN None
    ELSE CHOOSE x \in { e.price : e \in Range(entries) } :
            \A e \in Range(entries) :
                IF least THEN RLe(x, e.price) ELSE RLe(e.price, x)

\* C11: on every (well-formed) book, best ask is the minimum price over all
\* ask entries and None without asks, best bid is the maximum price over all
\* bid entries and None without bids, in both scripts' accessors, which so
\* agree with each other.
C11_AccessorsAgreeOnExtremes ==
    /\ (op \in {"best_ask_price", "best_ask"} /\ WellFormedSide(args.ob.asks)) =>
          ret.price = ExtremePrice(args.ob.asks, TRUE)
    /\ (op \in {"best_bid_price", "best_bid"} /\ WellFormedSide(args.ob.bids)) =>
          ret.price = ExtremePrice(args.ob.bids, FALSE)

\* The part of C11 that is about crypto5m_bot.py alone
C11_Crypto5mPart ==
    op \in {"best_ask", "best_bid"} \/ C11_AccessorsAgreeOnExtremes

\* The two scripts return different best asks for one well-formed book
C11_Disagreement ==
    /\ op = "best_ask"
    /\ WellFormedSide(args.ob.asks)
    /\ ret.price # best_ask_price(args.ob)

-----------------------------------------------------------------------------
(* The session of crypto5m_bot.py: st.session_state, the provider's        *)
(* answers of one script run, market rotation and the two refreshes.       *)
(* A dict without a key holds None at that key.  Logs, timestamps of       *)
(* display and the sidebar's widgets are left to the presentation layer.   *)

\* crypto5m_bot.py CRYPTO_MARKETS, in loop order (two of the four symbols)
CRYPTO_MARKETS == <<"BTC", "ETH">>

Symbols == Range(CRYPTO_MARKETS)

Strategies == {"arb", "snipe", "mispriced"}

\* crypto5m_bot.py init_state: the session after construction
init_state ==
    [running |-> FALSE,
     market_data |-> [sym \in Symbols |-> None],
     orderbooks |-> [sym \in Symbols |-> None],
     book_tokens |-> [sym \in Symbols |-> None],
     opportunities |-> <<>>,
     trade_history |-> <<>>,
     pnl_series |-> <<>>,
     total_pnl |-> Zero,
     total_trades |-> 0,
     total_opps |-> 0,
     current_period_start |-> 0,
     period_transitions |-> 0,
     strategy_stats |-> [k \in Strategies |-> [opps |-> 0, trades |-> 0, pnl |-> Zero]]]

\* crypto5m_bot.py get_period_start, with time.time() = now
get_period_start(now) == (now \div PERIOD_SECS) * PERIOD_SECS

\* What the Gamma API answers for one symbol's market of a period: no usable
\* market (not found, an error, a malformed answer), an open market or a
\* closed one
MarketAnswers == {"none", "open", "closed"}

\* The CLOB token of one side of a symbol's market of one period
token_of(sym, start_ts, side) == [sym |-> sym, start_ts |-> start_ts, side |-> side]

\* crypto5m_bot.py fetch_5m_market: every failure inside is caught and gives None
fetch_5m_market(sym, start_ts, answer) ==
    IF answer = "none" THEN None
    ELSE [prefix |-> sym,
          yes_token |-> token_of(sym, start_ts, "yes"),
          no_token |-> token_of(sym, start_ts, "no"),
          closed |-> (answer = "closed"),
          start_ts |-> start_ts]

\* crypto5m_bot.py fetch_orderbook: the book the CLOB API answers for the
\* token, None on every failure
fetch_orderbook(token_id, answer) == answer

\* crypto5m_bot.py refresh_market_data, first loop: the snapshot of one symbol
refreshed_snapshot(s, sym, period_start, w) ==
    LET md == fetch_5m_market(sym, period_start, w.market[sym])
    IN  IF md # None THEN md
        ELSE IF s.market_data[sym] # None
             THEN [s.market_data[sym] EXCEPT !.closed = TRUE]
             ELSE None

\* The token ids that the two fetch_orderbook calls for snapshot md pass to
\* the provider; the session's book_tokens remembers them per cached book
requested_tokens(md) == [yes |-> md.yes_token, no |-> md.no_token]

\* The two books of a symbol fetched for the tokens of its snapshot md
fetched_books(md, w) ==
    [yes |-> fetch_orderbook(md.yes_token, w.books[md.prefix].yes),
     no  |-> fetch_orderbook(md.no_token, w.books[md.prefix].no)]

\* crypto5m_bot.py refresh_market_data
refresh_market_data(s, period_start, w) ==
    LET market_data == [sym \in Symbols |-> refreshed_snapshot(s, sym, period_start, w)]
    IN  [s EXCEPT !.market_data = market_data,
                  !.orderbooks = [sym \in Symbols |->
                        IF market_data[sym] = None THEN s.orderbooks[sym]
                        ELSE fetched_books(market_data[sym], w)],
                  !.book_tokens = [sym \in Symbols |->
                        IF market_data[sym] = None THEN s.book_tokens[sym]
                        ELSE requested_tokens(market_data[sym])]]

\* A refresh within the period that asks for the metadata again (what
\* refresh_orderbooks_only does not do)
refresh_orderbooks_and_metadata(s, w) ==
    refresh_market_data(s, s.current_period_start, w)

\* crypto5m_bot.py refresh_orderbooks_only
refresh_orderbooks_only(s, w) ==
    [s EXCEPT !.orderbooks = [sym \in Symbols |->
        IF s.market_data[sym] = None THEN s.orderbooks[sym]
        ELSE IF s.market_data[sym].closed THEN s.orderbooks[sym]
        ELSE fetched_books(s.market_data[sym], w)],
              !.book_tokens = [sym \in Symbols |->
        IF s.market_data[sym] = None THEN s.book_tokens[sym]
        ELSE IF s.market_data[sym].closed THEN s.book_tokens[sym]
        ELSE requested_tokens(s.market_data[sym])]]

\* run_scan's rotation without the clearing of the caches (lines 841-842)
rotate_without_clearing(s, now, w) ==
    IF get_period_start(now) # s.current_period_start
    THEN refresh_market_data(
             [s EXCEPT !.current_period_start = get_period_start(now),
                       !.period_transitions = @ + 1],
             get_period_start(now), w)
    ELSE IF \A sym \in Symbols : s.market_data[sym] = None
         THEN refresh_market_data(s, get_period_start(now), w)
         ELSE refresh_orderbooks_only(s, w)

\* run_scan's rotation clearing the snapshots only, not the order books
rotate_keeping_books(s, now, w) ==
    IF get_period_start(now) # s.current_period_start
    THEN refresh_market_data(
             [s EXCEPT !.current_period_start = get_period_start(now),
                       !.period_transitions = @ + 1,
                       !.market_data = [sym \in Symbols |-> None]],
             get_period_start(now), w)
    ELSE IF \A sym \in Symbols : s.market_data[sym] = None
         THEN refresh_market_data(s, get_period_start(now), w)
         ELSE refresh_orderbooks_only(s, w)

\* run_scan, lines 828-849: period rotation and the refresh of the data
rotate_and_refresh(s, now, w) ==
    LET now_start == get_period_start(now)
    IN  IF now_start # s.current_period_start
        THEN refresh_market_data(
                 [s EXCEPT !.current_period_start = now_start,
                           !.period_transitions = @ + 1,
                           !.market_data = [sym \in Symbols |-> None],
                           !.orderbooks = [sym \in Symbols |-> None],
                           !.book_tokens = [sym \in Symbols |-> None]],
                 now_start, w)
        ELSE IF \A sym \in Symbols : s.market_data[sym] = None
             THEN refresh_market_data(s, now_start, w)
             ELSE refresh_orderbooks_only(s, w)

\* The symbols whose metadata the refresh of rotate_and_refresh requests
metadata_requests(s, now) ==
    IF get_period_start(now) # s.current_period_start
          \/ \A sym \in Symbols : s.market_data[sym] = None
    THEN Symbols ELSE {}

-----------------------------------------------------------------------------
(* run_scan after the refresh: the strategies of every symbol, then the    *)
(* recording and simulation of every opportunity.  An exception leaves     *)
(* run_scan where it is raised; what was written before it stays written.  *)

\* collections.deque(maxlen=200) of init_state
OPPORTUNITIES_MAXLEN == 200

\* A bounded history that makes room by dropping its newest entry
appendleft_dropping_newest(d, x, maxlen) ==
    IF Len(d) >= maxlen THEN <<x>> \o SubSeq(d, 2, maxlen) ELSE <<x>> \o d

\* deque.appendleft under maxlen: a full deque drops its last (oldest) entry
appendleft(d, x, maxlen) ==
    IF Len(d) >= maxlen THEN <<x>> \o SubSeq(d, 1, maxlen - 1) ELSE <<x>> \o d

\* strategy_stats[strat][field] += amount, for the counters
counted(stats, strat, field, amount) ==
    [stats EXCEPT ![strat][field] = @ + amount]

\* run_scan, lines 863-882: the three strategies of one symbol with books.
\* The counters of arb and snipe are written before the mispriced strategy runs.
strategies_of(r, sym, yes_ob, no_ob, time_left, p, arb, snipe, mispx) ==
    LET stats2 == counted(counted(r.s.strategy_stats, "arb", "opps",
                                  IF arb = None THEN 0 ELSE 1),
                          "snipe", "opps", IF snipe = None THEN 0 ELSE 1)
    IN  IF mispx = ZeroDivisionError
        THEN [s |-> [r.s EXCEPT !.strategy_stats = stats2],
              all_opps |-> r.all_opps, raised |-> TRUE]
        ELSE [s |-> [r.s EXCEPT !.strategy_stats =
                         counted(stats2, "mispriced", "opps", Len(mispx))],
              all_opps |-> r.all_opps \o all_opps_of(arb, snipe, mispx),
              raised |-> FALSE]

\* run_scan, lines 855-861: one turn of the loop over CRYPTO_MARKETS
scan_symbol(r, sym, ob, time_left, p) ==
    IF ob = None THEN r
    ELSE IF ob.yes = None /\ ob.no = None THEN r
    ELSE strategies_of(r, sym, ob.yes, ob.no, time_left, p,
                       check_arb_strategy(sym, ob.yes, ob.no, p),
                       check_snipe_strategy(sym, ob.yes, ob.no, time_left, p),
                       check_mispriced_strategy(sym, ob.yes, ob.no, p))

\* run_scan, lines 852-882: the loop over CRYPTO_MARKETS from its k-th symbol
RECURSIVE scan_symbols(_, _, _, _)
scan_symbols(r, k, time_left, p) ==
    IF k > Len(CRYPTO_MARKETS) \/ r.raised THEN r
    ELSE scan_symbols(scan_symbol(r, CRYPTO_MARKETS[k],
                                  r.s.orderbooks[CRYPTO_MARKETS[k]], time_left, p),
                      k + 1, time_left, p)

\* A booking whose cumulative-P&L point is taken before the total is updated
record_trade_point_before(s, opp, result, time_left) ==
    [s EXCEPT !.trade_history = Append(@, [result |-> result, time_left |-> time_left]),
              !.total_trades = @ + 1,
              !.total_pnl = RAdd(@, result.net_pnl),
              !.pnl_series = Append(@, [pnl |-> s.total_pnl]),
              !.strategy_stats[opp.strategy].trades = @ + 1,
              !.strategy_stats[opp.strategy].pnl = RAdd(@, result.net_pnl)]

\* run_scan, lines 895-915: the bookkeeping of a filled trade
record_trade(s, opp, result, time_left) ==
    [s EXCEPT !.trade_history = Append(@, [result |-> result, time_left |-> time_left]),
              !.total_trades = @ + 1,
              !.total_pnl = RAdd(@, result.net_pnl),
              !.pnl_series = Append(@, [pnl |-> RAdd(s.total_pnl, result.net_pnl)]),
              !.strategy_stats[opp.strategy].trades = @ + 1,
              !.strategy_stats[opp.strategy].pnl = RAdd(@, result.net_pnl)]

\* run_scan, lines 888-915: one opportunity is recorded, then simulated
record_and_simulate(r, opp, result, time_left) ==
    LET recorded == [r.s EXCEPT !.opportunities =
                        appendleft(@, [opp |-> opp, time_left |-> time_left],
                                   OPPORTUNITIES_MAXLEN)]
    IN  IF result = [raises |-> "ZeroDivisionError"]
        THEN [s |-> recorded, results |-> r.results, raised |-> TRUE]
        ELSE IF result.status = "filled"
        THEN [s |-> record_trade(recorded, opp, result, time_left),
              results |-> Append(r.results, result), raised |-> FALSE]
        ELSE [s |-> recorded, results |-> Append(r.results, result), raised |-> FALSE]

\* run_scan, lines 888-915: the loop over all_opps from its i-th opportunity,
\* draws[i] being the three random draws of the i-th simulation
RECURSIVE record_all(_, _, _, _, _, _)
record_all(r, all_opps, i, draws, time_left, p) ==
    IF i > Len(all_opps) \/ r.raised THEN r
    ELSE record_all(
             record_and_simulate(r, all_opps[i],
                 simulate_trade(all_opps[i], p, draws[i].slip, draws[i].fill,
                                draws[i].size),
                 time_left),
             all_opps, i + 1, draws, time_left, p)

\* run_scan up to line 885: refresh, strategies and the opportunity count
scan_detect(s, now, w, p) ==
    scan_symbols([s |-> rotate_and_refresh(s, now, w), all_opps |-> <<>>,
                  raised |-> FALSE],
                 1, time_left_in_period(get_period_start(now), I(now)), p)

\* run_scan from line 885 on, given what the strategies found
scan_record(d, now, draws, p) ==
    IF d.raised THEN [s |-> d.s, all_opps |-> d.all_opps, results |-> <<>>, raised |-> TRUE]
    ELSE LET r == record_all([s |-> [d.s EXCEPT !.total_opps = @ + Len(d.all_opps)],
                              results |-> <<>>, raised |-> FALSE],
                             d.all_opps, 1, draws,
                             time_left_in_period(get_period_start(now), I(now)), p)
         IN  [s |-> r.s, all_opps |-> d.all_opps, results |-> r.results,
              raised |-> r.raised]

\* crypto5m_bot.py run_scan
run_scan(s, now, w, draws, p) == scan_record(scan_detect(s, now, w, p), now, draws, p)

-----------------------------------------------------------------------------
(* One run of the script crypto5m_bot.py: the sidebar's buttons, then the  *)
(* scan loop at the bottom of the script.                                  *)

\* Sidebar, Start / Pause button: on start the period is reset
press_start_pause(s) ==
    IF s.running THEN [s EXCEPT !.running = FALSE]
    ELSE [s EXCEPT !.running = TRUE, !.current_period_start = 0]

\* A reset that forgets the trade counters
press_reset_keeping_trades(s) ==
    [s EXCEPT !.trade_history = <<>>, !.pnl_series = <<>>,
              !.total_pnl = Zero, !.total_opps = 0,
              !.opportunities = <<>>,
              !.market_data = [sym \in Symbols |-> None],
              !.orderbooks = [sym \in Symbols |-> None],
              !.book_tokens = [sym \in Symbols |-> None],
              !.current_period_start = 0, !.period_transitions = 0,
              !.strategy_stats = [k \in Strategies |->
                                    [opps |-> 0, trades |-> s.strategy_stats[k].trades, pnl |-> Zero]]]

\* Sidebar, Reset button
press_reset(s) ==
    [s EXCEPT !.trade_history = <<>>, !.pnl_series = <<>>,
              !.total_pnl = Zero, !.total_trades = 0, !.total_opps = 0,
              !.opportunities = <<>>,
              !.market_data = [sym \in Symbols |-> None],
              !.orderbooks = [sym \in Symbols |-> None],
              !.book_tokens = [sym \in Symbols |-> None],
              !.current_period_start = 0, !.period_transitions = 0,
              !.strategy_stats = [k \in Strategies |->
                                    [opps |-> 0, trades |-> 0, pnl |-> Zero]]]

\* Scan loop, the branch of a paused session: market data is loaded once
paused_preload(s, now, w) ==
    IF (\A sym \in Symbols : s.market_data[sym] = None)
          /\ get_period_start(now) # s.current_period_start
    THEN refresh_market_data([s EXCEPT !.current_period_start = get_period_start(now)],
                             get_period_start(now), w)
    ELSE s

\* The times at which the script runs: early and late in the period that
\* starts at 600 (890 is inside the snipe window) and early in the next one
ClockTimes == {610, 890, 910}

\* The books the CLOB API answers for the two tokens of a symbol: nothing; a
\* thin arbitrage (0.48 + 0.51) that a slippage of 2% turns into a rejection;
\* a YES book with a resting ask at price 0 under a cluster at 0.50
NoBooks == [yes |-> None, no |-> None]

ThinArbBooks ==
    [yes |-> [asks |-> <<[price |-> Rat(48, 100), size |-> I(100)]>>, bids |-> <<>>],
     no  |-> [asks |-> <<[price |-> Rat(51, 100), size |-> I(100)]>>, bids |-> <<>>]]

ZeroAskBooks ==
    [yes |-> [asks |-> <<[price |-> Rat(50, 100), size |-> I(100)],
                         [price |-> Rat(50, 100), size |-> I(100)],
                         [price |-> Zero, size |-> I(20)]>>, bids |-> <<>>],
     no  |-> None]

\* What the provider answers for one symbol during one run of the script: no
\* market (then no book is asked for), an open market with its books, or a
\* closed market with its books
SymbolAnswers(sym) ==
    IF sym = "BTC"
    THEN { [market |-> "none", books |-> NoBooks],
           [market |-> "open", books |-> NoBooks],
           [market |-> "open", books |-> ThinArbBooks],
           [market |-> "open", books |-> ZeroAskBooks],
           [market |-> "closed", books |-> ThinArbBooks] }
    ELSE { [market |-> "none", books |-> NoBooks],
           [market |-> "open", books |-> NoBooks],
           [market |-> "open", books |-> ThinArbBooks] }

\* What the provider answers during one run of the script
Worlds ==
    { [market |-> [sym \in Symbols |-> a[sym].market],
       books |-> [sym \in Symbols |-> a[sym].books]] :
        a \in { f \in [Symbols -> UNION { SymbolAnswers(sym) : sym \in Symbols }] :
                    \A sym \in Symbols : f[sym] \in SymbolAnswers(sym) } }

\* The random draws of one simulation: no slippage on the full minimum
\* size, or the greatest slippage on three quarters of it
ScanDraws(p) ==
    { [slip |-> Zero, fill |-> One, size |-> p.min_trade_usd],
      [slip |-> RDiv(p.slippage_pct, I(100)), fill |-> Rat(75, 100),
       size |-> p.min_trade_usd] }

InitSession ==
    /\ op = "init"
    /\ st = init_state
    /\ ret = None
    /\ args = [now |-> 600, p |-> SimParams]

\* The session's counters as the metrics row shows them when a script run
\* begins: opportunities found and trades
counters_of(s) == [total_opps |-> s.total_opps, total_trades |-> s.total_trades]

\* The periods run_scan has scanned since the session began or was last
\* reset, before the script run that is being taken
periods_scanned_before ==
    IF op = "init" \/ op' = "reset" THEN {} ELSE ret.periods

\* The state after run_scan has run from session s and ended as r
Scanned(s, now, w, draws, r) ==
    /\ st' = r.s
    /\ ret' = [before |-> s, scanned |-> TRUE, all_opps |-> r.all_opps,
               results |-> r.results, raised |-> r.raised,
               metadata_requests |-> metadata_requests(s, now),
               pressed |-> counters_of(st),
               periods |-> periods_scanned_before \cup {get_period_start(now)}]
    /\ args' = [now |-> now, p |-> args.p, w |-> w, draws |-> draws]

\* The state after the scan loop has found session s paused and left it as s2
Preloaded(s, now, w, s2) ==
    /\ st' = s2
    /\ ret' = [before |-> s, scanned |-> FALSE, all_opps |-> <<>>,
               results |-> <<>>, raised |-> FALSE,
               metadata_requests |-> IF s2 = s THEN {} ELSE Symbols,
               pressed |-> counters_of(st),
               periods |-> periods_scanned_before]
    /\ args' = [now |-> now, p |-> args.p, w |-> w, draws |-> <<>>]

\* run_scan with every choice of the draws of its simulations, d being
\* what its strategies found
ScanWithDraws(s, now, w, d) ==
    \E draws \in [1..(IF d.raised THEN 0 ELSE Len(d.all_opps)) -> ScanDraws(args.p)] :
        Scanned(s, now, w, draws, scan_record(d, now, draws, args.p))

\* The scan loop at the bottom of the script, entered with session s at time now
ScanLoop(s, event, now, w) ==
    /\ op' = event
    /\ IF s.running
       THEN ScanWithDraws(s, now, w, scan_detect(s, now, w, args.p))
       ELSE Preloaded(s, now, w, paused_preload(s, now, w))

\* The rerun that the scan loop schedules after a completed scan
Tick ==
    /\ st.running
    /\ op # "init"
    /\ ~ret.raised
    /\ \E now \in ClockTimes, w \in Worlds :
          now > args.now /\ ScanLoop(st, "tick", now, w)

\* The user presses Start or Pause
PressStartPause ==
    \E now \in ClockTimes, w \in Worlds :
        now > args.now /\ ScanLoop(press_start_pause(st), "start_pause", now, w)

\* The user presses Reset: the session is reset and the script reruns
PressReset ==
    \E now \in ClockTimes, w \in Worlds :
        now > args.now /\ ScanLoop(press_reset(st), "reset", now, w)

NextSession == Tick \/ PressStartPause \/ PressReset

SpecSession == InitSession /\ [][NextSession]_vars

\* A scan of run_scan that finds the period floor changed
Rotating == ret.scanned /\ get_period_start(args.now) # ret.before.current_period_start

\* C12: in a scan in which the floor of the current time differs from
\* current_period_start, the transition counter grows by exactly 1,
\* current_period_start becomes the new floor, metadata is requested for every
\* symbol, and what is cached after the scan is what the provider answered in
\* this scan for the new period: no snapshot or book of the previous period
\* survives.  A scan in which the floor is unchanged leaves the counter alone,
\* so two consecutive scans straddling one multiple of 300 count it once.
C12_RotationCountsOnceAndClearsAll ==
    (op # "init" /\ ret.scanned) =>
        IF Rotating
        THEN /\ st.period_transitions = ret.before.period_transitions + 1
             /\ st.current_period_start = get_period_start(args.now)
             /\ ret.metadata_requests = Symbols
             /\ \A sym \in Symbols :
                   /\ st.market_data[sym] =
                         fetch_5m_market(sym, get_period_start(args.now),
                                         args.w.market[sym])
                   /\ st.orderbooks[sym] =
                         IF args.w.market[sym] = "none" THEN None
                         ELSE args.w.books[sym]
        ELSE /\ st.period_transitions = ret.before.period_transitions
             /\ st.current_period_start = ret.before.current_period_start

\* The scan after a scan of the previous period: the provider has no market
\* yet for a symbol whose snapshot and books were cached, and they are gone
C12_Witness ==
    /\ op = "tick"
    /\ Rotating
    /\ ret.before.period_transitions = 1
    /\ st.period_transitions = 2
    /\ \E sym \in Symbols :
          /\ ret.before.market_data[sym] # None
          /\ ret.before.orderbooks[sym] # None
          /\ st.market_data[sym] = None
          /\ st.orderbooks[sym] = None

\* The opportunities a scan found for a symbol
OppsOf(sym) == { i \in DOMAIN ret.all_opps : ret.all_opps[i].crypto = sym }

\* C13: a symbol whose market snapshot is closed or missing in a scan cycle
\* yields no opportunity of any strategy in that cycle.
C13_NoOpportunityForClosedOrMissing ==
    (op # "init" /\ ret.scanned) =>
        \A sym \in Symbols :
            (st.market_data[sym] = None \/ st.market_data[sym].closed) =>
                OppsOf(sym) = {}

\* The part of C13 that is about symbols without a snapshot
C13_MissingPart ==
    (op # "init" /\ ret.scanned) =>
        \A sym \in Symbols : st.market_data[sym] = None => OppsOf(sym) = {}

\* A filled trade on a market whose snapshot is closed
C13_TradeOnClosedMarket ==
    /\ op # "init" /\ ret.scanned
    /\ \E sym \in Symbols :
          /\ st.market_data[sym] # None
          /\ st.market_data[sym].closed
          /\ \E i \in DOMAIN ret.results :
                ret.results[i].status = "filled" /\ ret.results[i].crypto = sym

\* A scan of run_scan inside the period the session already monitors
SamePeriodScan ==
    /\ op # "init" /\ ret.scanned
    /\ get_period_start(args.now) = ret.before.current_period_start

\* C14: a symbol without cached metadata in the current period is cached, and
\* its books fetched, at a later scan of the same period at which the provider
\* returns its market, whether or not other symbols have cached metadata.
C14_IdleBecomesActiveOnFirstFetch ==
    SamePeriodScan =>
        \A sym \in Symbols :
            (ret.before.market_data[sym] = None /\ args.w.market[sym] = "open") =>
                /\ st.market_data[sym] # None
                /\ st.orderbooks[sym] = args.w.books[sym]

\* The symbol stays without metadata although its market is there, because
\* another symbol is cached
C14_StaysIdle ==
    /\ SamePeriodScan
    /\ \E sym \in Symbols :
          /\ ret.before.market_data[sym] = None
          /\ args.w.market[sym] = "open"
          /\ st.market_data[sym] = None
          /\ \E other \in Symbols : ret.before.market_data[other] # None

\* C15: in a scan of the same period with metadata cached, only order books
\* are refreshed: the cached metadata of every symbol, current_period_start
\* and the transition counter are unchanged, and no metadata is requested.
C15_OnlyBooksRefreshedWithinPeriod ==
    (SamePeriodScan /\ \E sym \in Symbols : ret.before.market_data[sym] # None) =>
        /\ st.market_data = ret.before.market_data
        /\ st.current_period_start = ret.before.current_period_start
        /\ st.period_transitions = ret.before.period_transitions
        /\ ret.metadata_requests = {}
        /\ \A sym \in Symbols :
              st.orderbooks[sym] =
                  IF ret.before.market_data[sym] = None
                  THEN ret.before.orderbooks[sym]
                  ELSE IF ret.before.market_data[sym].closed
                  THEN ret.before.orderbooks[sym]
                  ELSE args.w.books[sym]

\* A scan of the same period replaces the books of a cached open symbol by
\* different ones and leaves its metadata alone
C15_Witness ==
    /\ SamePeriodScan
    /\ \E sym \in Symbols :
          /\ ret.before.market_data[sym] # None
          /\ ~ret.before.market_data[sym].closed
          /\ st.orderbooks[sym] # ret.before.orderbooks[sym]
          /\ st.market_data[sym] = ret.before.market_data[sym]
          /\ args.w.market[sym] = "none"

\* C16: for every outcome of the provider, run_scan completes without raising
\* and the next scan is scheduled.
C16_ScanCompletesForEveryProviderOutcome ==
    (op # "init" /\ ret.scanned) => ~ret.raised

\* The part that holds: a failed or closed fetch, a missing market and a book
\* without a zero-priced ask never make run_scan raise
C16_NoDataPart ==
    (op # "init" /\ ret.scanned /\ \A sym \in Symbols : args.w.books[sym] # ZeroAskBooks) =>
        ~ret.raised

\* run_scan raised after it had recorded the opportunity, and no further scan
\* is scheduled
C16_RaisedInsideScan ==
    /\ op # "init" /\ ret.scanned /\ ret.raised
    /\ Len(st.opportunities) = Len(ret.before.opportunities) + 1
    /\ st.total_trades = ret.before.total_trades
    /\ ~ENABLED Tick

\* ------------------------------------------------------------------------
\* HTTP helpers with back-off on 429: crypto5m_bot.py _http_get and
\* polymarketGPT.py _http_get_with_backoff, with the fetch functions that
\* call them. One step per request, per sleep and per return of the fetch.
\* ------------------------------------------------------------------------

\* retries=3 (crypto5m_bot.py) and max_retries=3 (polymarketGPT.py)
HTTP_RETRIES == 3

\* What one requests.get can give: a status code or a timeout
HttpAnswers == { "429", "200", "500", "timeout" }

\* The fetch functions that call the helpers
Callers ==
    { [script |-> "crypto5m", fetch |-> "fetch_orderbook"],
      [script |-> "crypto5m", fetch |-> "fetch_5m_market"],
      [script |-> "polymarket", fetch |-> "fetch_orderbook"],
      [script |-> "polymarket", fetch |-> "fetch_markets"] }

\* The cap of the exponential delay: min(2 ** attempt, 4) and
\* min(2 ** (attempt - 1), 8)
backoff_cap(script) == IF script = "crypto5m" THEN 4 ELSE 8

\* The upper end of random.uniform(0, 0.3) and random.uniform(0, 0.25)
jitter_max(script) == IF script = "crypto5m" THEN [n |-> 3, d |-> 10] ELSE [n |-> 1, d |-> 4]

\* A delay that grows by one second per attempt instead of doubling
backoff_linear(script, attempt) == attempt + 1

\* The delay before jitter; attempt counts from 0 in _http_get and from 1 in
\* _http_get_with_backoff
backoff_base(script, attempt) ==
    LET e == IF script = "crypto5m" THEN attempt ELSE attempt - 1
    IN  IF 2 ^ e <= backoff_cap(script) THEN 2 ^ e ELSE backoff_cap(script)

\* Not yet returned; an exception leaving the helper; the [] of fetch_markets
Pending == [pending |-> TRUE]
Raises == [raises |-> "RequestException"]
EmptyList == [empty |-> TRUE]

\* The state of a call of a fetch function before its first request
http_call(caller) ==
    [caller |-> caller, pc |-> "request", attempt |-> 0, answers |-> <<>>,
     delays |-> <<>>, slept |-> "no", returned |-> Pending, result |-> Pending]

\* requests.get inside _http_get (crypto5m_bot.py lines 407-418)
http_get_attempt(h, answer) ==
    LET h1 == [h EXCEPT !.answers = Append(@, answer)]
    IN  IF answer = "429" THEN [h1 EXCEPT !.pc = "sleep", !.slept = "backoff"]
        ELSE IF answer = "timeout"
        THEN IF h.attempt = HTTP_RETRIES - 1
             THEN [h1 EXCEPT !.pc = "fetch", !.returned = Raises]
             ELSE [h1 EXCEPT !.pc = "sleep", !.slept = "timeout"]
        ELSE IF answer = "200"
        THEN [h1 EXCEPT !.pc = "fetch", !.returned = [status |-> answer]]
        ELSE [h1 EXCEPT !.pc = "fetch", !.returned = Raises]

\* time.sleep inside _http_get, then the next round of its for loop; the
\* loop's end returns None (lines 411-412, 417-419)
http_get_sleep(h, jitter) ==
    LET delay == IF h.slept = "timeout" THEN [n |-> 1, d |-> 2]
                 ELSE RAdd(I(backoff_base("crypto5m", h.attempt)), jitter)
        h1 == [h EXCEPT !.delays = Append(@, delay), !.attempt = @ + 1, !.slept = "no"]
    IN  IF h1.attempt < HTTP_RETRIES
        THEN [h1 EXCEPT !.pc = "request"]
        ELSE [h1 EXCEPT !.pc = "fetch", !.returned = None]

\* requests.get inside _http_get_with_backoff (polymarketGPT.py lines 471-475)
http_get_with_backoff_attempt(h, answer) ==
    LET h1 == [h EXCEPT !.answers = Append(@, answer), !.attempt = @ + 1]
    IN  IF answer = "timeout" THEN [h1 EXCEPT !.pc = "fetch", !.returned = Raises]
        ELSE IF answer # "429" \/ h1.attempt >= HTTP_RETRIES
        THEN [h1 EXCEPT !.pc = "fetch", !.returned = [status |-> answer]]
        ELSE [h1 EXCEPT !.pc = "sleep", !.slept = "backoff"]

\* time.sleep inside _http_get_with_backoff (lines 476-477)
http_get_with_backoff_sleep(h, jitter) ==
    [h EXCEPT !.delays = Append(@, RAdd(I(backoff_base("polymarket", h.attempt)), jitter)),
              !.slept = "no", !.pc = "request"]

\* What the fetch function makes of the helper's outcome: every fetch wraps
\* the call in try/except; fetch_markets answers [] and the others None
fetch_result(h) ==
    LET nodata == IF h.caller.fetch = "fetch_markets" THEN EmptyList ELSE None
    IN  IF h.returned = [status |-> "200"] THEN [data |-> TRUE] ELSE nodata

\* ------------------------------------------------------------------------
\* Specification of the HTTP helpers
\* ------------------------------------------------------------------------

InitHttp ==
    /\ op = "call"
    /\ \E caller \in Callers : st = http_call(caller) /\ args = [caller |-> caller]
    /\ ret = None

\* A fetch function is called
CallFetch ==
    /\ st.pc = "done"
    /\ \E caller \in Callers : st' = http_call(caller) /\ args' = [caller |-> caller]
    /\ op' = "call"
    /\ ret' = None

\* One requests.get and the helper's reaction to its answer
HttpRequest ==
    /\ st.pc = "request"
    /\ \E answer \in HttpAnswers :
          st' = IF st.caller.script = "crypto5m"
                THEN http_get_attempt(st, answer)
                ELSE http_get_with_backoff_attempt(st, answer)
    /\ op' = "request"
    /\ UNCHANGED <<args, ret>>

\* One time.sleep of the helper
HttpSleep ==
    /\ st.pc = "sleep"
    /\ \E jitter \in Uniform(Zero, jitter_max(st.caller.script)) :
          st' = IF st.caller.script = "crypto5m"
                THEN http_get_sleep(st, IF st.slept = "timeout" THEN Zero ELSE jitter)
                ELSE http_get_with_backoff_sleep(st, jitter)
    /\ op' = "sleep"
    /\ UNCHANGED <<args, ret>>

\* The fetch function returns
FetchReturn ==
    /\ st.pc = "fetch"
    /\ st' = [st EXCEPT !.pc = "done", !.result = fetch_result(st)]
    /\ ret' = fetch_result(st)
    /\ op' = "return"
    /\ UNCHANGED args

NextHttp == CallFetch \/ HttpRequest \/ HttpSleep \/ FetchReturn

\* A call of a fetch function runs on until it returns
SpecHttp == InitHttp /\ [][NextHttp]_vars /\ WF_vars(NextHttp)

\* Every answer of the call so far was 429
Throttled == st.answers # <<>> /\ \A k \in 1..Len(st.answers) : st.answers[k] = "429"

\* The delay before jitter that the spec gives the k-th wait
CappedExponential(k, cap) == IF 2 ^ (k - 1) <= cap THEN 2 ^ (k - 1) ELSE cap

\* The requests, waits and result of a call that is answered 429 every time
C17_BoundedBackoff ==
    Throttled =>
        /\ Len(st.answers) <= HTTP_RETRIES
        /\ st.pc = "request" => Len(st.delays) = Len(st.answers)
        /\ \A k \in 1..Len(st.delays) :
              LET base == I(CappedExponential(k, backoff_cap(st.caller.script)))
              IN  /\ RLe(base, st.delays[k])
                  /\ RLe(st.delays[k], RAdd(base, jitter_max(st.caller.script)))
        /\ \A k \in 1..(Len(st.delays) - 1) : RLt(st.delays[k], st.delays[k + 1])
        /\ st.pc = "done" =>
              /\ Len(st.answers) = HTTP_RETRIES
              /\ st.result = IF st.caller.fetch = "fetch_markets" THEN EmptyList ELSE None

\* C17: when every attempt is answered 429, the helper issues at most 3
\* requests, waits between attempts a capped exponential delay plus bounded
\* jitter, terminates, and the calling fetch reports no data instead of
\* raising.
C17_BackoffIsBoundedAndTerminates ==
    /\ []C17_BoundedBackoff
    /\ (st.pc = "request") ~> (st.pc = "done")

\* A call answered 429 three times has returned
C17_Witness ==
    /\ st.pc = "done" /\ Throttled
    /\ Len(st.answers) = HTTP_RETRIES
    /\ Len(st.delays) >= 2

\* ------------------------------------------------------------------------
\* The size of a simulated trade: the sidebar's trade-size inputs and the
\* draw of simulate_trade (crypto5m_bot.py) and simulate_execution
\* (polymarketGPT.py)
\* ------------------------------------------------------------------------

\* The hard cap of the draw: min(p["max_trade_usd"], 1500) for every strategy
\* of crypto5m_bot.py, min(params["max_trade_usd"], 2000) in polymarketGPT.py
size_cap(script, strategy) == IF script = "crypto5m" THEN I(1500) ELSE I(2000)

\* random.uniform(min_trade_usd, min(max_trade_usd, cap)): a + (b - a) * r,
\* whichever of a and b is the larger
trade_size_draws(script, strategy, p) ==
    Uniform(p.min_trade_usd, RMin(p.max_trade_usd, size_cap(script, strategy)))

\* Values of the "Min trade" input: slider 10..500 step 10 (crypto5m_bot.py),
\* number_input 10..1000 step 10 (polymarketGPT.py)
MinTradeInputs(script) ==
    IF script = "crypto5m" THEN { I(10), I(50), I(500) } ELSE { I(10), I(50), I(1000) }

\* Values of the "Max trade" input: slider 100..5000 step 100
\* (crypto5m_bot.py), number_input 100..50000 step 100 (polymarketGPT.py)
MaxTradeInputs(script) ==
    IF script = "crypto5m" THEN { I(100), I(2000), I(5000) } ELSE { I(100), I(5000), I(50000) }

\* The parameters of a script with the trade-size inputs set
SizeParams(script) ==
    { [(IF script = "crypto5m" THEN DEFAULT_PARAMS ELSE POLY_DEFAULT_PARAMS)
          EXCEPT !.min_trade_usd = lo, !.max_trade_usd = hi] :
        lo \in MinTradeInputs(script), hi \in MaxTradeInputs(script) }

\* One opportunity of each strategy kind, as the detectors emit them
SizeOpp(strategy) ==
    IF strategy = "arb"
    THEN [strategy |-> "arb", crypto |-> "BTC", yes_price |-> Rat(48, 100),
          no_price |-> Rat(51, 100), net_edge |-> Rat(1, 100)]
    ELSE IF strategy = "snipe"
    THEN [strategy |-> "snipe", crypto |-> "BTC", token |-> "YES", price |-> Rat(97, 100)]
    ELSE [strategy |-> "mispriced", crypto |-> "BTC", token |-> "YES",
          price |-> Rat(30, 100), size |-> I(20), cluster_price |-> Rat(50, 100)]

InitSize ==
    /\ op = "configure"
    /\ \E script \in {"crypto5m", "polymarket"} :
          \E strategy \in (IF script = "crypto5m" THEN Strategies ELSE {"arb"}) :
             \E p \in SizeParams(script) :
                args = [script |-> script, strategy |-> strategy, p |-> p]
    /\ ret = None
    /\ st = None

\* crypto5m_bot.py simulate_trade with its three draws
SimulateTradeOfSize ==
    /\ op = "configure"
    /\ args.script = "crypto5m"
    /\ \E slip \in Uniform(Zero, RDiv(args.p.slippage_pct, I(100))),
          fill \in Uniform(Rat(75, 100), One),
          size \in trade_size_draws("crypto5m", args.strategy, args.p) :
          ret' = [size |-> size, slip |-> slip, fill |-> fill,
                  result |-> simulate_trade(SizeOpp(args.strategy), args.p, slip, fill, size)]
    /\ op' = "simulate"
    /\ UNCHANGED <<args, st>>

\* polymarketGPT.py simulate_execution with its three draws
SimulateExecutionOfSize ==
    /\ op = "configure"
    /\ args.script = "polymarket"
    /\ \E slip \in Uniform(Zero, RDiv(args.p.slippage_pct, I(100))),
          fill \in Uniform(Rat(75, 100), One),
          size \in trade_size_draws("polymarket", "arb", args.p) :
          ret' = [size |-> size, slip |-> slip, fill |-> fill,
                  result |-> simulate_execution(Rat(48, 100), Rat(51, 100), Rat(1, 100),
                                                args.p, slip, fill, size)]
    /\ op' = "simulate"
    /\ UNCHANGED <<args, st>>

NextSize == SimulateTradeOfSize \/ SimulateExecutionOfSize

SpecSize == InitSize /\ [][NextSize]_vars

\* The interval the spec gives the drawn size
SizeWithinRange ==
    /\ RLe(args.p.min_trade_usd, ret.size)
    /\ RLe(ret.size, RMin(args.p.max_trade_usd, size_cap(args.script, args.strategy)))

\* C18: the drawn trade size lies in [min_trade_usd, min(max_trade_usd, cap)]
\* for every configuration the sidebar allows, and the cap differs between
\* strategy kinds.
C18_SizeWithinRangeAndCapPerStrategy ==
    op = "simulate" =>
        /\ SizeWithinRange
        /\ \E other \in Strategies :
              size_cap(args.script, other) # size_cap(args.script, args.strategy)

\* The part that holds: with min_trade_usd at most min(max_trade_usd, cap)
\* the drawn size is within the interval
C18_OrderedBoundsPart ==
    (/\ op = "simulate"
     /\ RLe(args.p.min_trade_usd, RMin(args.p.max_trade_usd, size_cap(args.script, args.strategy)))) =>
        SizeWithinRange

\* A drawn size below min_trade_usd
C18_SizeBelowMinimum ==
    /\ op = "simulate"
    /\ RLt(ret.size, args.p.min_trade_usd)
    /\ ret.result.status = "filled"

\* The cap is the same for every strategy kind of a script
C18_OneCapPerScript ==
    \A script \in {"crypto5m", "polymarket"} :
        \A s1 \in Strategies, s2 \in Strategies : size_cap(script, s1) = size_cap(script, s2)

\* The filled results among the results of a scan, in their order
FilledOf(results) == SelectSeq(results, LAMBDA r : r.status = "filled")

\* total + net_pnl of the first k trades of f, added in their order
RECURSIVE PnlAfter(_, _, _)
PnlAfter(total, f, k) ==
    IF k = 0 THEN total ELSE RAdd(PnlAfter(total, f, k - 1), f[k].net_pnl)

\* The trades of f that belong to one strategy
OfStrategy(f, strat) == SelectSeq(f, LAMBDA r : r.strategy = strat)

\* C19: each filled simulation of a scan appends exactly one record to the
\* trade history, adds 1 to the total and to its strategy's trade counter,
\* adds its net_pnl to the total and to its strategy's P&L and appends one
\* cumulative-P&L point equal to the new total; a rejected simulation leaves
\* trade history, P&L totals, trade counters and the P&L series unchanged.
C19_FilledTradesAreBookedOnce ==
    (op # "init" /\ ret.scanned) =>
        LET b == ret.before
            f == FilledOf(ret.results)
            n == Len(b.trade_history)
            m == Len(b.pnl_series)
        IN  /\ st.trade_history =
                  b.trade_history \o [k \in 1..Len(f) |-> [result |-> f[k], time_left |-> st.trade_history[n + k].time_left]]
            /\ Len(st.trade_history) = n + Len(f)
            /\ st.total_trades = b.total_trades + Len(f)
            /\ st.total_pnl = PnlAfter(b.total_pnl, f, Len(f))
            /\ st.pnl_series =
                  b.pnl_series \o [k \in 1..Len(f) |-> [pnl |-> PnlAfter(b.total_pnl, f, k)]]
            /\ \A strat \in Strategies :
                  /\ st.strategy_stats[strat].trades =
                        b.strategy_stats[strat].trades + Len(OfStrategy(f, strat))
                  /\ st.strategy_stats[strat].pnl =
                        PnlAfter(b.strategy_stats[strat].pnl, OfStrategy(f, strat),
                                 Len(OfStrategy(f, strat)))

\* A scan with one filled and one rejected simulation, on top of a trade
\* booked by an earlier scan
C19_Witness ==
    /\ op # "init" /\ ret.scanned
    /\ Len(FilledOf(ret.results)) = 1
    /\ \E k \in 1..Len(ret.results) : ret.results[k].status = "rejected"
    /\ Len(ret.before.trade_history) >= 1
    /\ Len(st.trade_history) = Len(ret.before.trade_history) + 1
    /\ st.pnl_series[Len(st.pnl_series)].pnl = st.total_pnl
    /\ st.total_pnl # ret.before.total_pnl

\* ------------------------------------------------------------------------
\* polymarketGPT.py scan_markets_once: the bookkeeping of a scan
\* ------------------------------------------------------------------------

\* polymarketGPT.py init_state, the fields scan_markets_once writes
poly_init_state ==
    [trade_history |-> <<>>, pnl_series |-> <<>>, edge_history |-> <<>>,
     total_pnl |-> Zero, total_trades |-> 0, total_opps |-> 0]

\* The result of a market for which no execution was simulated
NotSimulated == [simulated |-> FALSE]

\* scan_markets_once, lines 755-781: a market over the threshold is counted
\* and simulated, and a filled simulation is booked
poly_book_trade(s, d, exec) ==
    [s EXCEPT !.total_pnl = RAdd(@, exec.net_pnl),
              !.total_trades = @ + 1,
              !.trade_history = Append(@, [buy_yes |-> d.buy_yes, buy_no |-> d.buy_no,
                                           net_pnl |-> exec.net_pnl,
                                           trade_size |-> exec.trade_size_usd,
                                           fill_pct |-> exec.fill_pct]),
              !.pnl_series = Append(@, [cumulative_pnl |-> RAdd(s.total_pnl, exec.net_pnl)])]

\* scan_markets_once, the body of its loop for one market with books ob and
\* the three draws of its simulation
poly_scan_market(r, ob, params, draw) ==
    LET d == scan_market_detect(ob.yes, ob.no, params)
    IN  IF d = None
        THEN [s |-> r.s, results |-> Append(r.results, [status |-> "NO DATA", exec |-> NotSimulated])]
        ELSE LET s1 == [r.s EXCEPT !.edge_history =
                           Append(@, [raw_edge_pct |-> RMul(d.raw_edge, I(100)),
                                      net_edge_pct |-> RMul(d.net_edge, I(100))])]
             IN  IF d.opportunity
                 THEN LET s2 == [s1 EXCEPT !.total_opps = @ + 1]
                          exec == simulate_execution(d.buy_yes, d.buy_no, d.net_edge, params,
                                                     draw.slip, draw.fill, draw.size)
                      IN  IF exec # None
                          THEN [s |-> poly_book_trade(s2, d, exec),
                                results |-> Append(r.results, [status |-> "EXECUTED", exec |-> exec])]
                          ELSE [s |-> s2,
                                results |-> Append(r.results, [status |-> "HOT", exec |-> None])]
                 ELSE [s |-> s1,
                       results |-> Append(r.results,
                           [status |-> IF RLt(Zero, d.raw_edge) THEN "WARM" ELSE "COLD",
                            exec |-> NotSimulated])]

\* scan_markets_once: the loop over the markets from the i-th on
RECURSIVE scan_markets_once(_, _, _, _, _)
scan_markets_once(r, books, i, params, draws) ==
    IF i > Len(books) THEN r
    ELSE scan_markets_once(poly_scan_market(r, books[i], params, draws[i]),
                           books, i + 1, params, draws)

\* Scans per session in SpecPolyScan
MaxPolyScans == 2

\* fetch_orderbook's answer for a token with a single ask of size 100
AskBook(price) == [asks |-> <<[price |-> price, size |-> I(100)]>>, bids |-> <<>>]

\* The order books of a market's two tokens that the provider may answer
PolyBooks ==
    { [yes |-> None, no |-> AskBook(Rat(51, 100))],
      [yes |-> AskBook(Rat(48, 100)),
       no |-> AskBook(Rat(51, 100))],
      [yes |-> AskBook(Rat(40, 100)),
       no |-> AskBook(Rat(40, 100))],
      [yes |-> AskBook(Rat(51, 100)),
       no |-> AskBook(Rat(51, 100))] }

\* The draws of simulate_execution: both ends of the slippage interval
PolyDraws(params) ==
    { [slip |-> Zero, fill |-> One, size |-> params.min_trade_usd],
      [slip |-> RDiv(params.slippage_pct, I(100)), fill |-> Rat(75, 100),
       size |-> params.min_trade_usd] }

InitPolyScan ==
    /\ op = "init"
    /\ st = poly_init_state
    /\ args = [params |-> SimPolyParams, scans |-> 0]
    /\ ret = None

\* One scan cycle over two markets
ScanMarketsOnce ==
    /\ args.scans < MaxPolyScans
    /\ \E books \in [1..2 -> PolyBooks], draws \in [1..2 -> PolyDraws(args.params)] :
          LET r == scan_markets_once([s |-> st, results |-> <<>>], books, 1, args.params, draws)
          IN  /\ st' = r.s
              /\ ret' = [before |-> st, results |-> r.results]
              /\ args' = [params |-> args.params, scans |-> args.scans + 1,
                          books |-> books, draws |-> draws]
    /\ op' = "scan_markets_once"

\* polymarketGPT.py, the Reset Session button (lines 942-959)
poly_press_reset(s) ==
    [s EXCEPT !.trade_history = <<>>, !.pnl_series = <<>>, !.edge_history = <<>>,
              !.total_pnl = Zero, !.total_trades = 0, !.total_opps = 0]

\* The user presses Reset Session
PressPolyReset ==
    /\ op = "scan_markets_once"
    /\ st' = poly_press_reset(st)
    /\ ret' = [before |-> st, results |-> <<>>]
    /\ op' = "reset"
    /\ UNCHANGED args

NextPolyScan == ScanMarketsOnce \/ PressPolyReset

SpecPolyScan == InitPolyScan /\ [][NextPolyScan]_vars

\* The filled simulations of a scan of polymarketGPT.py, in their order
PolyFilled(results) == SelectSeq(results, LAMBDA x : x.status = "EXECUTED")

\* total + net_pnl of the first k filled simulations of f
RECURSIVE PolyPnlAfter(_, _, _)
PolyPnlAfter(total, f, k) ==
    IF k = 0 THEN total ELSE RAdd(PolyPnlAfter(total, f, k - 1), f[k].exec.net_pnl)

\* The same bookkeeping in polymarketGPT.py, which has one strategy and so
\* only the totals: one record, one trade and one cumulative point per filled
\* simulation, nothing for a rejected one
C19_PolymarketPart ==
    op = "scan_markets_once" =>
        LET b == ret.before
            f == PolyFilled(ret.results)
        IN  /\ Len(st.trade_history) = Len(b.trade_history) + Len(f)
            /\ SubSeq(st.trade_history, 1, Len(b.trade_history)) = b.trade_history
            /\ \A k \in 1..Len(f) :
                  st.trade_history[Len(b.trade_history) + k].net_pnl = f[k].exec.net_pnl
            /\ st.total_trades = b.total_trades + Len(f)
            /\ st.total_pnl = PolyPnlAfter(b.total_pnl, f, Len(f))
            /\ st.pnl_series =
                  b.pnl_series \o [k \in 1..Len(f) |-> [cumulative_pnl |-> PolyPnlAfter(b.total_pnl, f, k)]]

\* A scan of polymarketGPT.py with one filled and one rejected simulation
C19_PolymarketWitness ==
    /\ op = "scan_markets_once"
    /\ Len(PolyFilled(ret.results)) = 1
    /\ \E k \in 1..Len(ret.results) : ret.results[k].status = "HOT"
    /\ Len(ret.before.trade_history) >= 1

\* ------------------------------------------------------------------------
\* The opportunity history at its capacity: the session of crypto5m_bot.py
\* entered with a history that earlier scans have filled
\* ------------------------------------------------------------------------

\* Numbers of opportunities the history holds when the specification starts
FilledLengths == { OPPORTUNITIES_MAXLEN - 2, OPPORTUNITIES_MAXLEN - 1, OPPORTUNITIES_MAXLEN }

\* A history of n opportunities recorded by earlier scans, newest first; the
\* k-th newest was recorded with k seconds left in its period
history_of(n) ==
    [k \in 1..n |->
        [opp |-> check_arb_strategy("BTC", ThinArbBooks.yes, ThinArbBooks.no, SimParams),
         time_left |-> I(k)]]

\* A paused session whose scans recorded n opportunities, all of them
\* rejected by the simulator, and found no market in the period of 600
session_with_history(n) ==
    [init_state EXCEPT !.opportunities = history_of(n),
                       !.total_opps = n,
                       !.strategy_stats["arb"].opps = n,
                       !.current_period_start = 600,
                       !.period_transitions = 1]

InitHistory ==
    /\ op = "start_pause"
    /\ \E n \in FilledLengths :
          /\ st = session_with_history(n)
          /\ ret = [before |-> session_with_history(n), scanned |-> FALSE,
                    all_opps |-> <<>>, results |-> <<>>, raised |-> FALSE,
                    metadata_requests |-> {},
                    pressed |-> counters_of(session_with_history(n)),
                    periods |-> {get_period_start(610)}]
    /\ args = [now |-> 610, p |-> SimParams, w |-> CHOOSE w \in Worlds : TRUE, draws |-> <<>>]

SpecHistory == InitHistory /\ [][NextSession]_vars

\* The opportunities a scan has recorded: all of them, or those up to and
\* including the one whose simulation raised
RecordedBy(scan) ==
    SubSeq(scan.all_opps, 1, Len(scan.results) + (IF scan.raised THEN 1 ELSE 0))

\* C20: the opportunity history never holds more than 200 entries; a scan
\* that records into a full history evicts the oldest entries and no other,
\* and the entries stay newest first in the order of insertion.
C20_HistoryBoundedOldestEvicted ==
    /\ Len(st.opportunities) <= 200
    /\ (op # "init" /\ ret.scanned) =>
          LET new  == RecordedBy(ret)
              old  == ret.before.opportunities
              kept == IF Len(new) + Len(old) <= 200 THEN Len(old) ELSE 200 - Len(new)
          IN  /\ Len(st.opportunities) = Len(new) + kept
              /\ \A i \in 1..Len(new) :
                    st.opportunities[i].opp = new[Len(new) - i + 1]
              /\ \A i \in 1..kept : st.opportunities[Len(new) + i] = old[i]

\* A scan recorded two opportunities into a history that held 199: the two
\* oldest were evicted
C20_Witness ==
    /\ op # "init" /\ ret.scanned
    /\ Len(ret.before.opportunities) = 199
    /\ Len(RecordedBy(ret)) = 2
    /\ Len(st.opportunities) = 200
    /\ st.opportunities[200] = ret.before.opportunities[198]
    /\ st.opportunities[3] = ret.before.opportunities[1]

\* The counters of a session: the two totals and, per strategy, the
\* opportunities and the trades
CounterValues(s) ==
    <<s.total_opps, s.total_trades>> \o
    [k \in 1..6 |->
        LET strat == <<"arb", "snipe", "mispriced">>[((k - 1) % 3) + 1]
        IN  IF k <= 3 THEN s.strategy_stats[strat].opps ELSE s.strategy_stats[strat].trades]

\* A session as the explicit reset leaves it
IsCleared(s) ==
    /\ \A k \in 1..8 : CounterValues(s)[k] = 0
    /\ s.trade_history = <<>> /\ s.pnl_series = <<>> /\ s.total_pnl = Zero

\* C21: across any sequence of script runs no counter decreases, except by
\* the explicit reset, which zeroes them all, empties trade history and the
\* P&L series and zeroes total P&L before the next scan counts again.
C21_CountersMonotoneUntilReset ==
    [][IF op' = "reset"
       THEN /\ IsCleared(ret'.before)
            /\ \A k \in 1..8 : CounterValues(st')[k] >= 0
       ELSE \A k \in 1..8 : CounterValues(st')[k] >= CounterValues(st)[k]]_vars

\* A reset of a session that had found opportunities and booked trades,
\* whose rerun scanned and counted from zero again
C21_Witness ==
    /\ op = "reset" /\ ret.scanned
    /\ ret.pressed.total_opps >= 2 /\ ret.pressed.total_trades >= 1
    /\ IsCleared(ret.before)
    /\ st.total_opps = 1 /\ st.total_trades = 1

\* The same in polymarketGPT.py: scans only add to the totals, Reset Session
\* zeroes them and empties trade history and the P&L series
C21_PolymarketPart ==
    [][IF op' = "reset"
       THEN /\ st'.total_opps = 0 /\ st'.total_trades = 0 /\ st'.total_pnl = Zero
            /\ st'.trade_history = <<>> /\ st'.pnl_series = <<>>
       ELSE /\ st'.total_opps >= st.total_opps
            /\ st'.total_trades >= st.total_trades]_vars

\* Reset Session pressed on a session of polymarketGPT.py with a booked trade
C21_PolymarketWitness ==
    /\ op = "reset"
    /\ ret.before.total_trades >= 1 /\ ret.before.total_opps >= 2
    /\ st.total_trades = 0 /\ st.total_opps = 0

\* C22: at the end of every scan every cached snapshot has start_ts equal to
\* current_period_start, and every cached order book was fetched for the
\* tokens of a cached snapshot of that same period.
C22_CachesBelongToCurrentPeriod ==
    (op # "init" /\ ret.scanned) =>
        \A sym \in Symbols :
            /\ st.market_data[sym] # None =>
                  st.market_data[sym].start_ts = st.current_period_start
            /\ st.orderbooks[sym] # None =>
                  /\ st.market_data[sym] # None
                  /\ st.book_tokens[sym] = requested_tokens(st.market_data[sym])
                  /\ st.book_tokens[sym].yes.start_ts = st.current_period_start
                  /\ st.book_tokens[sym].no.start_ts = st.current_period_start

\* A scan of period 900 ended with a snapshot and books of period 900 for a
\* symbol for which the session held a snapshot and books of period 600
C22_Witness ==
    /\ op # "init" /\ ret.scanned
    /\ st.current_period_start = 900
    /\ \E sym \in Symbols :
          /\ ret.before.market_data[sym] # None
          /\ ret.before.market_data[sym].start_ts = 600
          /\ ret.before.orderbooks[sym] # None
          /\ st.market_data[sym] # None
          /\ st.orderbooks[sym] # None
          /\ st.book_tokens[sym].yes.start_ts = 900
    /\ \E sym \in Symbols :
          /\ ret.before.orderbooks[sym] # None
          /\ st.orderbooks[sym] = None

\* ------------------------------------------------------------------------
\* The three detectors of crypto5m_bot.py run one after the other on the
\* same order books, parameters and session
\* ------------------------------------------------------------------------

\* The orders in which the three detectors can run
DetectorOrders ==
    { <<"arb", "snipe", "mispriced">>, <<"arb", "mispriced", "snipe">>,
      <<"snipe", "arb", "mispriced">>, <<"snipe", "mispriced", "arb">>,
      <<"mispriced", "arb", "snipe">>, <<"mispriced", "snipe", "arb">> }

\* The order of run_scan (lines 863-882)
ScanOrder == <<"arb", "snipe", "mispriced">>

\* A detector whose sort happens in place on the YES asks it was given
after_detector_sorting_in_place(strategy, x) ==
    IF strategy = "mispriced" /\ x.yes_ob # None
    THEN [x EXCEPT !.yes_ob.asks = sorted_by_price(@)]
    ELSE x

\* What a detector leaves of the objects it was called with (x: the two
\* order books, the parameters, the time left and the session): none of the
\* three assigns to an argument, a global or st.session_state; candidates,
\* price_vol, mispriced and opps are new local objects, and sorted() copies
after_detector(strategy, x) == x

\* The call of one detector as run_scan makes it
run_detector(strategy, x) ==
    IF strategy = "arb" THEN check_arb_strategy("BTC", x.yes_ob, x.no_ob, x.p)
    ELSE IF strategy = "snipe"
    THEN check_snipe_strategy("BTC", x.yes_ob, x.no_ob, x.time_left, x.p)
    ELSE check_mispriced_strategy("BTC", x.yes_ob, x.no_ob, x.p)

\* The detectors of order from the k-th on, each called with what the ones
\* before it left; r holds the objects and the results so far
RECURSIVE run_detectors(_, _, _)
run_detectors(order, k, r) ==
    IF k > Len(order) THEN r
    ELSE run_detectors(order, k + 1,
             [x |-> after_detector(order[k], r.x),
              found |-> [r.found EXCEPT ![order[k]] = run_detector(order[k], r.x)]])

\* No detector has run
NothingFound == [strat \in Strategies |-> None]

\* The cluster price find_mispriced_orders computes for the YES asks, where
\* it gets that far
yes_cluster_price(x) ==
    IF x.yes_ob = None THEN None
    ELSE IF Len(x.yes_ob.asks) < 2 THEN None
    ELSE IF \E k \in DOMAIN x.yes_ob.asks : ~Parses(x.yes_ob.asks[k]) THEN None
    ELSE cluster_price_of(x.yes_ob.asks)

\* Order books of the YES token: up to MaxMispricedAsks asks of size 100
PureYesBooks ==
    {None} \cup
    { [asks |-> a, bids |-> <<>>] :
        a \in SeqsUpTo([price : { Rat(4, 100), Rat(48, 100), Rat(97, 100) }, size : {I(100)}],
                       MaxMispricedAsks) }

\* Order books of the NO token
PureNoBooks == { None, AskBook(Rat(51, 100)), AskBook(Rat(97, 100)) }

InitPure ==
    /\ op = "init"
    /\ st = init_state
    /\ ret = None
    /\ \E yes_ob \in PureYesBooks, no_ob \in PureNoBooks, t \in { I(10), I(100) },
          order \in DetectorOrders :
          args = [yes_ob |-> yes_ob, no_ob |-> no_ob, time_left |-> t, p |-> SimParams,
                  order |-> order]

\* The objects the detectors are called with
DetectorInputs ==
    [yes_ob |-> args.yes_ob, no_ob |-> args.no_ob, time_left |-> args.time_left,
     p |-> args.p, session |-> st]

\* The state after the detectors ran in the given order, r being their outcome
Detected(order, r, first) ==
    /\ args' = [args EXCEPT !.yes_ob = r.x.yes_ob, !.no_ob = r.x.no_ob,
                            !.time_left = r.x.time_left, !.p = r.x.p]
    /\ st' = r.x.session
    /\ ret' = [called_with |-> IF first THEN DetectorInputs ELSE ret.called_with,
               found |-> IF first THEN r.found ELSE ret.found,
               cluster |-> IF first THEN yes_cluster_price(DetectorInputs) ELSE ret.cluster,
               again |-> IF first THEN NothingFound ELSE r.found,
               cluster_again |-> IF first THEN None ELSE yes_cluster_price(DetectorInputs)]

\* The three detectors run in the order args.order
RunDetectors ==
    /\ op = "init"
    /\ op' = "detected"
    /\ Detected(args.order, run_detectors(args.order, 1, [x |-> DetectorInputs, found |-> NothingFound]), TRUE)

\* The three detectors run once more, in the order of run_scan, on what the
\* first run left
RunDetectorsAgain ==
    /\ op = "detected"
    /\ op' = "detected_again"
    /\ Detected(ScanOrder, run_detectors(ScanOrder, 1, [x |-> DetectorInputs, found |-> NothingFound]), FALSE)

NextPure == RunDetectors \/ RunDetectorsAgain

SpecPure == InitPure /\ [][NextPure]_vars

\* The opportunities among the results of the three detectors
OpportunitySet(found) ==
    ({ found["arb"], found["snipe"] } \ {None}) \cup Range(found["mispriced"])

PAGE_SIZE == 200

\* Pages requested per call in SpecMarkets
MaxPages == 3

\* Values of the "Max markets to monitor (0 = ALL)" slider (0..250, step 5)
MarketLimits == { 0, 5, 250 }

\* Values of the ABSOLUTE_MAX number input (50..20000, step 50; default 500)
AbsoluteMaxima == { 50, 500 }

\* What one page request can give: a page, or an exception (HTTP error after
\* the back-off, undecodable JSON, an item that is not an object)
ProviderPages ==
    { [size |-> n, passing |-> q, raises |-> FALSE] :
        n \in { 0, 150, PAGE_SIZE }, q \in { 0, 30, 150, PAGE_SIZE } } \cup
    { [size |-> PAGE_SIZE, passing |-> 0, raises |-> TRUE] }

\* A page loop that collects without the safety cap of ALL
collect_page_without_cap(limit, absolute_max, out, passing) ==
    IF limit # 0 /\ out + passing >= limit
    THEN [returned |-> TRUE, n |-> limit]
    ELSE [returned |-> FALSE, n |-> out + passing]

\* The for loop over one page (lines 518-555): every passing item is
\* appended, and the function returns from inside the loop as soon as the
\* requested limit, or in ALL mode the safety cap, is reached
collect_page(limit, absolute_max, out, passing) ==
    IF limit # 0 /\ out + passing >= limit
    THEN [returned |-> TRUE, n |-> limit]
    ELSE IF limit = 0 /\ absolute_max # 0 /\ out + passing >= absolute_max
    THEN [returned |-> TRUE, n |-> absolute_max]
    ELSE [returned |-> FALSE, n |-> out + passing]

\* The call of fetch_markets before its first request
fetch_markets_call(limit, absolute_max) ==
    [limit |-> limit, absolute_max |-> absolute_max, out |-> 0, offset |-> 0,
     pages |-> <<>>, pc |-> "request", result |-> 0]

\* One round of the while loop (lines 501-561) with the provider's answer
fetch_markets_page(f, page) ==
    LET f1 == [f EXCEPT !.pages = Append(@, page)]
        c  == collect_page(f.limit, f.absolute_max, f.out, page.passing)
    IN  IF page.raises THEN [f1 EXCEPT !.pc = "done", !.result = 0]
        ELSE IF page.size = 0
        THEN [f1 EXCEPT !.pc = "done",
                        !.result = IF f.limit = 0 \/ f.out <= f.limit THEN f.out ELSE f.limit]
        ELSE IF c.returned THEN [f1 EXCEPT !.pc = "done", !.out = c.n, !.result = c.n]
        ELSE IF page.size < PAGE_SIZE
        THEN [f1 EXCEPT !.pc = "done", !.out = c.n,
                        !.result = IF f.limit = 0 \/ c.n <= f.limit THEN c.n ELSE f.limit]
        ELSE [f1 EXCEPT !.out = c.n, !.offset = @ + PAGE_SIZE]

InitMarkets ==
    /\ op = "call"
    /\ \E limit \in MarketLimits, absolute_max \in AbsoluteMaxima :
          /\ st = fetch_markets_call(limit, absolute_max)
          /\ args = [limit |-> limit, absolute_max |-> absolute_max]
    /\ ret = None

\* One page is requested and handled
FetchPage ==
    /\ st.pc = "request"
    /\ Len(st.pages) < MaxPages
    /\ \E page \in { pg \in ProviderPages : pg.passing <= pg.size } :
          /\ st' = fetch_markets_page(st, page)
          /\ ret' = IF fetch_markets_page(st, page).pc = "done"
                    THEN [markets |-> fetch_markets_page(st, page).result]
                    ELSE None
    /\ op' = "page"
    /\ UNCHANGED args

NextMarkets == FetchPage

SpecMarkets == InitMarkets /\ [][NextMarkets]_vars

\* C24: fetch_markets returns at most limit markets when limit > 0 and at
\* most absolute_max markets when limit = 0, whatever pages the provider
\* answers, and requests no page after the first empty or partial one.
C24_FetchMarketsIsCapped ==
    LET bound == IF args.limit > 0 THEN args.limit ELSE args.absolute_max
    IN  /\ st.pc = "done" => st.result <= bound
        /\ st.pc = "request" => st.out < bound
        /\ \A k \in 1..(Len(st.pages) - 1) : st.pages[k].size >= 200
        /\ (st.pages # <<>> /\ st.pages[Len(st.pages)].size < 200) => st.pc = "done"

\* ALL mode cut at the safety cap of 500 inside the third full page
C24_Witness ==
    /\ st.pc = "done"
    /\ args.limit = 0 /\ args.absolute_max = 500
    /\ Len(st.pages) = 3
    /\ st.result = 500

\* ------------------------------------------------------------------------
\* polymarketGPT.py ensure_pinned_market and fetch_market_by_slug
\* ------------------------------------------------------------------------

\* Markets in the list given to ensure_pinned_market in SpecPinned
MaxPinnedMarkets == 3

\* condition_id values: fetch_markets and fetch_market_by_slug both store
\* m.get("conditionId", m.get("id", "")), "" when the provider sends neither
ConditionIds == { "", "0xaa", "0xbb" }

\* The markets fetch_markets can return, told apart by their volume
ListedMarkets == [condition_id : ConditionIds, volume : { 1, 2 }]

\* What the Gamma API answers to the slug request: an error, an empty list,
\* a market that is not binary, or a binary market with its identifier
SlugAnswers ==
    { [kind |-> "error"], [kind |-> "empty"], [kind |-> "not_binary"] } \cup
    { [kind |-> "market", conditionId |-> c] : c \in ConditionIds }

\* polymarketGPT.py fetch_market_by_slug
fetch_market_by_slug(slug, answer) ==
    IF slug = "" THEN None
    ELSE IF answer.kind # "market" THEN None
    ELSE [condition_id |-> answer.conditionId, volume |-> 0, pinned |-> TRUE]

\* A pinned market inserted without removing the listed one
ensure_pinned_market_no_dedupe(markets, pinned) ==
    IF pinned = None THEN markets ELSE <<pinned>> \o markets

\* polymarketGPT.py ensure_pinned_market, pinned being what
\* fetch_market_by_slug returned
ensure_pinned_market(markets, pinned) ==
    IF pinned = None THEN markets
    ELSE LET cid  == pinned.condition_id
             kept == IF cid # ""
                     THEN SelectSeq(markets, LAMBDA m : m.condition_id # cid)
                     ELSE markets
         IN  <<pinned>> \o kept

InitPinned ==
    /\ op = "init"
    /\ st = None
    /\ ret = None
    /\ \E markets \in SeqsUpTo(ListedMarkets, MaxPinnedMarkets),
          slug \in { "", "btc-updown-5m" }, answer \in SlugAnswers :
          args = [markets |-> markets, slug |-> slug, answer |-> answer]

CallEnsurePinnedMarket ==
    /\ op = "init"
    /\ op' = "ensure_pinned_market"
    /\ ret' = [pinned |-> fetch_market_by_slug(args.slug, args.answer),
               markets |-> ensure_pinned_market(args.markets,
                               fetch_market_by_slug(args.slug, args.answer))]
    /\ UNCHANGED <<args, st>>

NextPinned == CallEnsurePinnedMarket

SpecPinned == InitPinned /\ [][NextPinned]_vars

\* The returned list for a resolved slug: the pinned market first, then the
\* input markets with another condition_id, in their order
PinnedFirstAndUnique ==
    /\ ret.markets[1] = ret.pinned
    /\ \A k \in 2..Len(ret.markets) :
          ret.markets[k].condition_id # ret.pinned.condition_id
    /\ Tail(ret.markets) =
          SelectSeq(args.markets, LAMBDA m : m.condition_id # ret.pinned.condition_id)

\* C25: when the pinned slug resolves, the returned list starts with the
\* pinned market, no other element has its condition_id and the other input
\* markets keep their order; when it does not resolve, the list is the input.
C25_PinnedMarketFirstAndUnique ==
    op = "ensure_pinned_market" =>
        IF ret.pinned # None THEN PinnedFirstAndUnique ELSE ret.markets = args.markets

\* The part that holds: a pinned market with a non-empty condition_id
C25_NonEmptyIdPart ==
    (op = "ensure_pinned_market" /\ ret.pinned # None) =>
        (ret.pinned.condition_id # "" => PinnedFirstAndUnique)

\* The returned list holds a second market with the pinned condition_id
C25_DuplicateOfPinned ==
    /\ op = "ensure_pinned_market"
    /\ ret.pinned # None
    /\ \E k \in 2..Len(ret.markets) :
          ret.markets[k].condition_id = ret.pinned.condition_id

\* ------------------------------------------------------------------------
\* crypto5m_bot.py: the period counter against the periods scanned
\* ------------------------------------------------------------------------

\* The times of the script runs in SpecPeriods: four in the period that
\* starts at 600, one in each of the next two
PeriodClockTimes == {610, 700, 800, 890, 910, 1210}

\* Provider answers without order books: no market for any symbol, or an
\* open market for every symbol
QuietWorlds ==
    { [market |-> [sym \in Symbols |-> m], books |-> [sym \in Symbols |-> NoBooks]] :
        m \in {"none", "open"} }

\* The script runs of SpecSession, at the times of PeriodClockTimes and with
\* the answers of QuietWorlds
PeriodTick ==
    /\ st.running
    /\ op # "init"
    /\ ~ret.raised
    /\ \E now \in PeriodClockTimes, w \in QuietWorlds :
          now > args.now /\ ScanLoop(st, "tick", now, w)

PeriodPressStartPause ==
    \E now \in PeriodClockTimes, w \in QuietWorlds :
        now > args.now /\ ScanLoop(press_start_pause(st), "start_pause", now, w)

PeriodPressReset ==
    \E now \in PeriodClockTimes, w \in QuietWorlds :
        now > args.now /\ ScanLoop(press_reset(st), "reset", now, w)

NextPeriods == PeriodTick \/ PeriodPressStartPause \/ PeriodPressReset

SpecPeriods == InitSession /\ [][NextPeriods]_vars

\* C26: the period counter equals the number of distinct 5-minute periods
\* scanned since the session began or was last reset, after any sequence of
\* Start, Pause, paused preload and scan steps: two scans inside one period
\* never count it twice.
C26_PeriodCounterCountsDistinctPeriods ==
    op # "init" => st.period_transitions = Cardinality(ret.periods)

\* The part that holds: no scanned period goes uncounted, and a scan that
\* follows a scan without a press of Start in between counts a period at
\* most once (the first half of this is C12's unchanged-floor case)
C26_NeverUndercountsPart ==
    op # "init" => st.period_transitions >= Cardinality(ret.periods)

\* A scan started by pressing Start in a period that was scanned already:
\* the period is counted a second time
C26_PeriodCountedTwice ==
    /\ op = "start_pause"
    /\ ret.scanned
    /\ get_period_start(args.now) = 600
    /\ ret.periods = {600}
    /\ st.period_transitions = 2

\* ------------------------------------------------------------------------
\* Opportunities are recorded and counted before they are simulated
\* ------------------------------------------------------------------------

\* What a scan did with the opportunities its strategies detected: all are
\* counted, all are in the history (newest first) and each has one result
AllRecordedAndSimulated ==
    /\ st.total_opps = ret.before.total_opps + Len(ret.all_opps)
    /\ Len(st.opportunities) >= Len(ret.all_opps)
    /\ \A i \in 1..Len(ret.all_opps) :
          /\ i <= Len(st.opportunities)
          /\ st.opportunities[i].opp = ret.all_opps[Len(ret.all_opps) - i + 1]
    /\ Len(ret.results) = Len(ret.all_opps)

\* C27: within one scan every detected opportunity is appended to the
\* opportunity history and counted and then simulated exactly once in that
\* scan; no trade is recorded without an opportunity recorded before it, so
\* the trade count never exceeds the opportunity count.
C27_OpportunityRecordedThenSimulatedOnce ==
    /\ st.total_trades <= st.total_opps
    /\ (op # "init" /\ ret.scanned) => AllRecordedAndSimulated

\* The part that holds in crypto5m_bot.py: the trade count never exceeds
\* the opportunity count, and a scan that runs to its end has recorded,
\* counted and simulated once every opportunity it detected
C27_CompletedScanPart ==
    /\ st.total_trades <= st.total_opps
    /\ Len(st.trade_history) <= st.total_opps
    /\ (op # "init" /\ ret.scanned /\ ~ret.raised) => AllRecordedAndSimulated

\* The part that holds in polymarketGPT.py
C27_PolymarketPart ==
    /\ st.total_trades <= st.total_opps
    /\ Len(st.trade_history) <= st.total_opps

\* A scan detected two opportunities and the simulation of the first one
\* raised: both are counted, the second is neither recorded nor simulated
C27_DetectedButNeverSimulated ==
    /\ op # "init" /\ ret.scanned /\ ret.raised
    /\ Len(ret.all_opps) = 2
    /\ st.total_opps = ret.before.total_opps + 2
    /\ Len(st.opportunities) = Len(ret.before.opportunities) + 1
    /\ ret.results = <<>>

\* ------------------------------------------------------------------------
\* crypto5m_bot.py: the totals against the per-strategy statistics
\* ------------------------------------------------------------------------

\* The sum of one field of the three per-strategy trade counts
StrategySum(s, field) ==
    s.strategy_stats["arb"][field] + s.strategy_stats["snipe"][field]
        + s.strategy_stats["mispriced"][field]

\* A YES book whose cluster is at price 0 with an ask below it: the discount
\* of find_mispriced_orders divides by the cluster price
ZeroClusterBooks ==
    [yes |-> [asks |-> <<[price |-> Zero, size |-> I(100)],
                         [price |-> Zero, size |-> I(100)],
                         [price |-> Rat(-20, 100), size |-> I(20)]>>, bids |-> <<>>],
     no  |-> None]

\* Provider answers of SpecTotals: BTC has no market or the thin arbitrage,
\* ETH has no market, the thin arbitrage or the zero cluster
TotalsWorlds ==
    { [market |-> [sym \in Symbols |-> IF sym = "BTC" THEN b.market ELSE e.market],
       books |-> [sym \in Symbols |-> IF sym = "BTC" THEN b.books ELSE e.books]] :
        b \in { [market |-> "none", books |-> NoBooks],
                [market |-> "open", books |-> ThinArbBooks] },
        e \in { [market |-> "none", books |-> NoBooks],
                [market |-> "open", books |-> ThinArbBooks],
                [market |-> "open", books |-> ZeroClusterBooks] } }

\* The script runs of SpecSession with the answers of TotalsWorlds
TotalsTick ==
    /\ st.running
    /\ op # "init"
    /\ ~ret.raised
    /\ \E now \in ClockTimes, w \in TotalsWorlds :
          now > args.now /\ ScanLoop(st, "tick", now, w)

TotalsPressStartPause ==
    \E now \in ClockTimes, w \in TotalsWorlds :
        now > args.now /\ ScanLoop(press_start_pause(st), "start_pause", now, w)

TotalsPressReset ==
    \E now \in ClockTimes, w \in TotalsWorlds :
        now > args.now /\ ScanLoop(press_reset(st), "reset", now, w)

NextTotals == TotalsTick \/ TotalsPressStartPause \/ TotalsPressReset

SpecTotals == InitSession /\ [][NextTotals]_vars

\* C28: after any sequence of scans and resets total_opps is the sum of the
\* per-strategy opportunity counts, total_trades is the sum of the
\* per-strategy trade counts and the length of the trade history and of the
\* P&L series, and total_pnl is the sum of the per-strategy P&L values.
C28_TotalsAreSumsOfStrategyStats ==
    /\ st.total_opps = StrategySum(st, "opps")
    /\ st.total_trades = StrategySum(st, "trades")
    /\ st.total_trades = Len(st.trade_history)
    /\ st.total_trades = Len(st.pnl_series)
    /\ st.total_pnl = RAdd(RAdd(st.strategy_stats["arb"].pnl, st.strategy_stats["snipe"].pnl),
                           st.strategy_stats["mispriced"].pnl)

\* The part that holds: the trade totals, and the opportunity total never
\* above the sum of the per-strategy opportunity counts
C28_TradeTotalsPart ==
    /\ st.total_opps <= StrategySum(st, "opps")
    /\ st.total_trades = StrategySum(st, "trades")
    /\ st.total_trades = Len(st.trade_history)
    /\ st.total_trades = Len(st.pnl_series)
    /\ st.total_pnl = RAdd(RAdd(st.strategy_stats["arb"].pnl, st.strategy_stats["snipe"].pnl),
                           st.strategy_stats["mispriced"].pnl)

\* A scan in which the arbitrage detector counted its opportunity and the
\* mispriced detector of the next symbol raised: total_opps was not updated
C28_StrategyCountWithoutTotal ==
    /\ op # "init" /\ ret.scanned /\ ret.raised
    /\ st.strategy_stats["arb"].opps = ret.before.strategy_stats["arb"].opps + 1
    /\ st.total_opps = ret.before.total_opps
    /\ st.total_opps < StrategySum(st, "opps")

\* ------------------------------------------------------------------------
\* crypto5m_bot.py: the purchase price of the opportunities simulated
\* ------------------------------------------------------------------------

\* What simulate_trade adds the slippage to
PurchasePrice(opp) ==
    IF opp.strategy = "arb" THEN RAdd(opp.yes_price, opp.no_price) ELSE opp.price

\* C29: every opportunity the three detectors hand to the simulator has a
\* purchase price > 0, so the cost per share simulate_trade divides by is > 0
\* for every slippage draw, a slippage of exactly 0 included.
C29_PurchasePriceIsPositive ==
    /\ (op = "detect" /\ ret.all_opps # ZeroDivisionError) =>
          \A i \in DOMAIN ret.all_opps : RLt(Zero, PurchasePrice(ret.all_opps[i]))
    /\ op = "simulate_trade" =>
          /\ RLt(Zero, DrawnCost(ret.opp, ret.slip))
          /\ ret.result # [raises |-> "ZeroDivisionError"]

\* The part that holds: arbitrage and snipe opportunities
C29_ArbAndSnipePart ==
    /\ (op = "detect" /\ ret.all_opps # ZeroDivisionError) =>
          \A i \in DOMAIN ret.all_opps :
              ret.all_opps[i].strategy # "mispriced" =>
                  RLt(Zero, PurchasePrice(ret.all_opps[i]))
    /\ (op = "simulate_trade" /\ ret.opp.strategy # "mispriced") =>
          /\ RLt(Zero, DrawnCost(ret.opp, ret.slip))
          /\ ret.result # [raises |-> "ZeroDivisionError"]

\* A mispriced ask at price 0 is simulated with a slippage draw of 0: the
\* division by the cost raises
C29_ZeroCostDivision ==
    /\ op = "simulate_trade"
    /\ ret.opp.strategy = "mispriced"
    /\ ret.opp.price = Zero
    /\ ret.slip = Zero
    /\ ret.result = [raises |-> "ZeroDivisionError"]

\* ------------------------------------------------------------------------
\* crypto5m_bot.py: the strategy checkboxes of the sidebar
\* ------------------------------------------------------------------------

\* What the user can tick: one checkbox per strategy
CheckboxValues == [arb_enabled : BOOLEAN, snipe_enabled : BOOLEAN, mispriced_enabled : BOOLEAN]

\* Sidebar, lines 1042-1044: every script run stores the three checkboxes
\* in the session
strategy_toggles(s, boxes) ==
    [s EXCEPT !.arb_enabled = boxes.arb_enabled,
              !.snipe_enabled = boxes.snipe_enabled,
              !.mispriced_enabled = boxes.mispriced_enabled]

\* The checkbox of a strategy as the session holds it
enabled(s, strat) ==
    IF strat = "arb" THEN s.arb_enabled
    ELSE IF strat = "snipe" THEN s.snipe_enabled
    ELSE s.mispriced_enabled

\* Provider answers of SpecToggles: BTC with the thin arbitrage or with the
\* ask at price 0 under its cluster, ETH without a market or with the thin
\* arbitrage
ToggleWorlds ==
    { [market |-> [sym \in Symbols |-> IF sym = "BTC" THEN "open" ELSE e.market],
       books |-> [sym \in Symbols |-> IF sym = "BTC" THEN b ELSE e.books]] :
        b \in { ThinArbBooks, ZeroAskBooks },
        e \in { [market |-> "none", books |-> NoBooks],
                [market |-> "open", books |-> ThinArbBooks] } }

\* The session after construction with the checkboxes at their default
InitToggles ==
    /\ op = "init"
    /\ st = init_state @@ [arb_enabled |-> TRUE, snipe_enabled |-> TRUE,
                           mispriced_enabled |-> TRUE]
    /\ ret = None
    /\ args = [now |-> 600, p |-> SimParams]

\* The script runs of SpecSession with the checkboxes the user has set
ToggledTick ==
    /\ st.running
    /\ op # "init"
    /\ ~ret.raised
    /\ \E now \in ClockTimes, w \in ToggleWorlds, boxes \in CheckboxValues :
          now > args.now /\ ScanLoop(strategy_toggles(st, boxes), "tick", now, w)

ToggledPressStartPause ==
    \E now \in ClockTimes, w \in ToggleWorlds, boxes \in CheckboxValues :
        /\ now > args.now
        /\ ScanLoop(strategy_toggles(press_start_pause(st), boxes), "start_pause", now, w)

NextToggles == ToggledTick \/ ToggledPressStartPause

SpecToggles == InitToggles /\ [][NextToggles]_vars

\* C30: while a strategy's checkbox is unchecked, a scan records no
\* opportunity and no trade of that strategy and leaves that strategy's
\* counters unchanged.
C30_UncheckedStrategyIsNotScanned ==
    (op # "init" /\ ret.scanned) =>
        \A strat \in Strategies :
            ~enabled(ret.before, strat) =>
                /\ \A i \in DOMAIN ret.all_opps : ret.all_opps[i].strategy # strat
                /\ \A i \in DOMAIN st.opportunities :
                      st.opportunities[i].opp.strategy = strat =>
                          \E j \in DOMAIN ret.before.opportunities :
                              ret.before.opportunities[j] = st.opportunities[i]
                /\ OfStrategy(FilledOf(ret.results), strat) = <<>>
                /\ st.strategy_stats[strat] = ret.before.strategy_stats[strat]

\* What holds instead: the scan is the one run_scan makes with all three
\* checkboxes ticked
C30_CheckboxesAreIgnoredPart ==
    (op # "init" /\ ret.scanned) =>
        st = strategy_toggles(
                 run_scan(strategy_toggles(ret.before,
                              [arb_enabled |-> TRUE, snipe_enabled |-> TRUE,
                               mispriced_enabled |-> TRUE]),
                          args.now, args.w, args.draws, args.p).s,
                 ret.before)

\* A scan with the arbitrage checkbox unchecked detects an arbitrage, counts
\* it and books its trade
C30_UncheckedStrategyTraded ==
    /\ op # "init" /\ ret.scanned
    /\ ~ret.before.arb_enabled
    /\ \E i \in DOMAIN ret.all_opps : ret.all_opps[i].strategy = "arb"
    /\ st.strategy_stats["arb"].opps > ret.before.strategy_stats["arb"].opps
    /\ st.strategy_stats["arb"].trades > ret.before.strategy_stats["arb"].trades

====
